---- MODULE Spec2Model ----
(***************************************************************************)
(* A model of the spatial stacking engine of STACK-WINDOWS:                *)
(* WindowManager (src/src/main/window-manager.js, lines 1-843) together    *)
(* with the part of the native window manager (user32) it reads and        *)
(* writes: window liveness, minimized state and window rectangles.         *)
(*                                                                         *)
(* One action per WindowManager method or timer callback.  Every action    *)
(* records in `last` what the call was, what it returned and which native  *)
(* calls it issued, so that properties of a single call can be stated.     *)
(***************************************************************************)
EXTENDS Integers, Sequences, FiniteSets, TLC

\* ---------------------------------------------------------------- bounds

\* Window handles the host window manager hands out are 1..MaxHandle.
MaxHandle == 3

\* Animation progress is sampled at k/AnimSteps, k \in 0..AnimSteps.
AnimSteps == 1

\* A run makes at most MaxSteps steps that change the program or the windows
\* (calls that return without acting are not counted).
MaxSteps == 5

\* Largest stack drawn as an input of the strip-height specification.
MaxStripWindows == 14

\* Largest stack drawn as an input of the layout specification.
MaxLayoutWindows == 4

\* A monitor is started at most MaxMonitorStarts times while timers or hooks
\* of earlier starts are alive.
MaxMonitorStarts == 2

\* The OS changes the foreground window at most MaxFocusChanges times.
MaxFocusChanges == 3

\* ------------------------------------------------------- program constants

\* this.activeHwnd = 0: the "none" sentinel; also never a valid HWND.
NoHandle == 0

\* customWidth / customHeight = null, displayRightEdge: null.
Null == -1

HEADER_HEIGHT == 40

\* if (availableWidth < 200) ... skipping layout
MinAvailableWidth == 200

\* Math.max(200, Number(width))
MinCustomDimension == 200

\* Math.max(Math.floor(maxStripArea / inactiveCount), 10)
MinStripHeight == 10

\* cy: activeHeight > 100 ? activeHeight : effectiveHeight
MinActiveHeight == 100

\* startX + 1920: fallback display width when displayRightEdge is absent
FallbackDisplayWidth == 1920

\* (r.right - r.left) || 800 and (r.bottom - r.top) || 600
FallbackRestoreWidth == 800

FallbackRestoreHeight == 600

Handles == 1 .. MaxHandle

StripHandles == 1 .. MaxStripWindows

LayoutHandles == 1 .. MaxLayoutWindows

\* Arguments callers pass as a handle (validateHwnd rejects hwnd <= 0); a
\* handle whose window was destroyed is the invalid argument.
HandleArgs == 1 .. MaxHandle

\* ------------------------------------------------------------ small helpers

Min(a, b) == IF a <= b THEN a ELSE b

Max(a, b) == IF a >= b THEN a ELSE b

Rect(l, t, r, b) == [left |-> l, top |-> t, right |-> r, bottom |-> b]

\* The rectangle each window occupies before the program touches it.
InitialRect(h) == Rect(100 * h, 50 * h, 100 * h + 640 + 10 * h, 50 * h + 480)

\* customTitle values: "" stands for null.
Titles == {"", "t"}

\* ------------------------------------------------------------------- state

VARIABLES
  isWindow,        \* OS: api.IsWindow(h)
  isIconic,        \* OS: api.IsIconic(h)
  winRect,         \* OS: api.GetWindowRect(h)
  managedWindows,  \* this.managedWindows
  activeHwnd,      \* this.activeHwnd
  customWidth,     \* this.customWidth
  customHeight,    \* this.customHeight
  skipAnimation,   \* this.skipAnimation (constructor option)
  restoreTimers,   \* this._restoreAnimationTimers, with each tick's closure
  animTimer,       \* this._animationTimer !== null
  currentTargets,  \* this._currentTargets (<<>> for null)
  animLayouts,     \* `layouts` captured by the tick this._animationTimer refers to
  animTicks,       \* OS: the setTimeout timers of _animateLayout still pending,
                   \* each as the `layouts` its tick captured
  last,            \* the last call: operation, argument, result, native calls
  steps,           \* number of steps so far that changed anything but `last`
  fgWindow,        \* OS: api.GetForegroundWindow()
  fmTimer,         \* ForegroundMonitor._timer (0 for null)
  fmIntervals,     \* OS: the setInterval timers of the focus monitor still alive
  fmLastForeground,\* ForegroundMonitor._lastForeground
  fmManaged,       \* ForegroundMonitor._managedHwnds
  fmOnFocusChange, \* ForegroundMonitor._onFocusChange !== null
  fmArrivals,      \* focus changes onto a managed foreign window while monitoring,
                   \* since the last start, stop or updateManagedSet
  fmReports,       \* onFocusChange invocations since then
  focusChanges,    \* number of foreground changes so far
  rmHook,          \* ResizeMonitor._hook (0 for null)
  rmHooks,         \* OS: the WinEvent hooks of the resize monitor still installed
  rmCallback,      \* ResizeMonitor._callback (0 for null)
  rmCallbacks,     \* koffi: the registered callbacks of the resize monitor
  rmManaged,       \* ResizeMonitor._managedHwnds
  rmOnResizeEnd,   \* ResizeMonitor._onResizeEnd !== null
  rmSkipOwn,       \* the hook is installed with WINEVENT_SKIPOWNPROCESS
  monLast,         \* the last monitor call or OS event and the callbacks it made
  instLive,        \* per instance: whether its process is running
  instCleanedUp,   \* per instance: _cleanedUp (performCleanup has run)
  instManaged,     \* per instance: the handles of its stack (getManagedHwnds)
  instListed,      \* per instance: the available windows last returned to its panel
  instPending,     \* per instance: the setTimeout timers of updateManagedHwnds
                   \* still alive, each with its argument and the ticks left
  instDebounceTimer, \* per instance: InstanceRegistry._debounceTimer, as the set
                   \* of the timer it refers to ({} for null)
  instBurst,       \* per instance: the updateManagedHwnds calls since no timer
                   \* was pending: how many (up to 2), last argument, ticks
                   \* since, writes made
  instOp,          \* per instance: the registry operation in progress and the
                   \* registry value it is about to write
  registryState,   \* instance-registry.json: "absent", "complete", "partial"
                   \* (JSON.parse rejects it), or a text that parses but is
                   \* malformed: "wrongShape", "nullInstances", "nullEntry"
  registryFile,    \* instance-registry.json: instance id -> managedHwnds
  tmpState,        \* instance-registry.json.tmp: "absent", "complete", "partial",
                   \* or "unwritable" (writeFileSync throws)
  tmpFile,         \* instance-registry.json.tmp: instance id -> managedHwnds
  regLast,         \* the last registry operation or file step and its result
  appTimers,       \* main.js: the timers of the main process still pending
  cleanupRuns,     \* history: the quit events so far, the last one, and how
                   \* often each step of performCleanup has run
  persistWriting,  \* Persistence._writing
  persistPending,  \* Persistence._pendingState, as a set ({} for null)
  persistInFlight, \* fs.promises.writeFile calls not yet settled, with their data
  persistFile,     \* window-group.json: the data it holds, as a set ({} = absent)
  persistSaved,    \* the arguments of the save calls so far, oldest first
  stackName,       \* this.stackName
  hideAvailable,   \* this.hideAvailable
  backgroundColor, \* this.backgroundColor
  rtSource,        \* the engine getState() was taken from
  rtLoaded         \* the fresh engine after loadState of that state

osVars == <<isWindow, isIconic, winRect>>

modelVars == <<managedWindows, activeHwnd>>

dimVars == <<customWidth, customHeight>>

animVars == <<animTimer, currentTargets, animLayouts, animTicks>>

focusVars == <<fgWindow, fmTimer, fmIntervals, fmLastForeground, fmManaged,
               fmOnFocusChange, fmArrivals, fmReports, focusChanges>>

resizeVars == <<rmHook, rmHooks, rmCallback, rmCallbacks, rmManaged, rmOnResizeEnd,
                rmSkipOwn>>

\* The collaborators of the engine in main.js: the two monitors.
registryVars == <<instLive, instCleanedUp, instManaged, instListed, instPending,
                  instDebounceTimer, instBurst, instOp, registryState,
                  registryFile, tmpState, tmpFile, regLast>>

\* The timers main.js itself arms.
appVars == <<appTimers, cleanupRuns>>

persistVars == <<persistWriting, persistPending, persistInFlight, persistFile,
                 persistSaved>>

\* The settings of the engine that getState saves besides the windows.
settingsVars == <<stackName, hideAvailable, backgroundColor>>

roundTripVars == <<rtSource, rtLoaded>>

restVars == <<appVars, persistVars, settingsVars, roundTripVars>>

hostVars == <<focusVars, resizeVars, registryVars, monLast, restVars>>

\* The engine and the windows it moves.
engineVars == <<isWindow, isIconic, winRect, managedWindows, activeHwnd, customWidth,
                customHeight, skipAnimation, restoreTimers, animTimer,
                currentTargets, animLayouts, animTicks, last, steps>>

vars == <<engineVars, hostVars>>

\* Everything a step can change besides the record of the call.
stateVars == <<isWindow, isIconic, winRect, managedWindows, activeHwnd, customWidth,
               customHeight, skipAnimation, restoreTimers, animTimer,
               currentTargets, animLayouts, animTicks>>

\* The bound on the length of a run: a step that changes the state is taken
\* only while fewer than MaxSteps such steps were made.
Budget ==
  IF stateVars' = stateVars THEN steps' = steps
  ELSE steps < MaxSteps /\ steps' = steps + 1

\* ------------------------------------------------------ the record of a call

\* The value of `sb` in the record of a call that is not layoutStack.
NoBounds == [x |-> 0, y |-> 0, width |-> 0, height |-> 0, displayRightEdge |-> Null]

NoCalls ==
  [fg |-> {}, show |-> {}, pos |-> {}, targets |-> <<>>, sb |-> NoBounds,
   force |-> FALSE, cleared |-> FALSE]

\* op: the method; hwnd: its handle argument; ret: its boolean result;
\* fg: handles given to SetForegroundWindow; show: handles given to
\* ShowWindow(SW_RESTORE); pos: <<handle, rectangle>> of every SetWindowPos /
\* DeferWindowPos request; targets: targetLayouts built by layoutStack; sb:
\* the bounds layoutStack was given; force: promoteToActive's
\* forceNativeForeground argument; cleared: whether clearTimeout cancelled a
\* pending layout tick.
Call(op, h, ret, calls) ==
  [op |-> op, hwnd |-> h, ret |-> ret, fg |-> calls.fg, show |-> calls.show,
   pos |-> calls.pos, targets |-> calls.targets, sb |-> calls.sb,
   force |-> calls.force, cleared |-> calls.cleared]

\* -------------------------------------------------- model-field accessors

ManagedHwnds(mw) == {mw[i].hwnd : i \in 1 .. Len(mw)}

\* managedWindows.findIndex(w => w.hwnd === h); 0 stands for -1.
FindIndex(mw, h) ==
  IF h \in ManagedHwnds(mw)
  THEN CHOOSE i \in 1 .. Len(mw) :
         /\ mw[i].hwnd = h
         /\ \A j \in 1 .. (i - 1) : mw[j].hwnd # h
  ELSE 0

\* api.IsWindow(h): 0 and handles the OS no longer knows are not windows.
IsWindow(h) == h \in DOMAIN isWindow /\ isWindow[h]

IsIconic(h) == IsWindow(h) /\ isIconic[h]


\* ------------------------------------------------------------ native calls

\* A positioning request: SetWindowPos / DeferWindowPos(h, _, x, y, cx, cy, _).
PosReq(h, x, y, cx, cy) == [hwnd |-> h, x |-> x, y |-> y, cx |-> cx, cy |-> cy]

ReqRect(q) == Rect(q.x, q.y, q.x + q.cx, q.y + q.cy)

\* What a request is recorded as in last.pos.
PosCall(q) == [hwnd |-> q.hwnd, rect |-> ReqRect(q)]

\* api.SetWindowPos: moves the window when the handle is a window, fails
\* (returns 0, moves nothing) otherwise.
SetWindowPos(wr, q) ==
  IF IsWindow(q.hwnd) THEN [wr EXCEPT ![q.hwnd] = ReqRect(q)] ELSE wr

\* Requests reqs[from..Len(reqs)] applied one after the other.
RECURSIVE SetWindowPosFrom(_, _, _)
SetWindowPosFrom(wr, reqs, from) ==
  IF from > Len(reqs) THEN wr
  ELSE SetWindowPosFrom(SetWindowPos(wr, reqs[from]), reqs, from + 1)

\* Index of the first request DeferWindowPos rejects (its handle is not a
\* window), 0 when it accepts them all.
FirstInvalid(reqs) ==
  IF \E i \in 1 .. Len(reqs) : ~IsWindow(reqs[i].hwnd)
  THEN CHOOSE i \in 1 .. Len(reqs) :
         /\ ~IsWindow(reqs[i].hwnd)
         /\ \A j \in 1 .. (i - 1) : IsWindow(reqs[j].hwnd)
  ELSE 0

\* BeginDeferWindowPos / DeferWindowPos... / EndDeferWindowPos over reqs.
\* When every DeferWindowPos succeeds the batch is applied at once.  When one
\* fails the batch is abandoned (EndDeferWindowPos is not called); with
\* `fallback` the code then calls SetWindowPos for the failing request and
\* every later one.
DeferBatch(wr, reqs, fallback) ==
  LET i == FirstInvalid(reqs) IN
  IF i = 0 THEN SetWindowPosFrom(wr, reqs, 1)
  ELSE IF fallback THEN SetWindowPosFrom(wr, reqs, i)
  ELSE wr

\* api.ShowWindow(h, SW_RESTORE) for every handle of hs.
ShowRestore(ic, hs) == [h \in DOMAIN ic |-> IF h \in hs THEN FALSE ELSE ic[h]]

\* ------------------------------------------------------------- animation

\* _applyEasing at progress k/AnimSteps for the default 'ease-out-cubic':
\* 1 - (1 - p)^3 = EaseNum(k) / EaseDen.
EaseDen == AnimSteps * AnimSteps * AnimSteps

EaseNum(k) == EaseDen - (AnimSteps - k) * (AnimSteps - k) * (AnimSteps - k)

\* Math.round(s + (t - s) * ease): rounds half up.
Interpolate(s, t, k) ==
  (2 * EaseDen * s + 2 * (t - s) * EaseNum(k) + EaseDen) \div (2 * EaseDen)

\* The frame of an animation record a (start s*, target t*) at progress k.
FrameReq(a, k) ==
  PosReq(a.hwnd, Interpolate(a.sx, a.tx, k), Interpolate(a.sy, a.ty, k),
         Interpolate(a.scx, a.tcx, k), Interpolate(a.scy, a.tcy, k))

TargetReq(a) == PosReq(a.hwnd, a.tx, a.ty, a.tcx, a.tcy)

\* x || y for numbers: y when x is 0.
OrElse(x, y) == IF x = 0 THEN y ELSE x

\* _restoreWindow / _animateRestore: the rectangle a window is restored to.
RestoreTarget(entry) ==
  LET r == entry.originalRect IN
  PosReq(entry.hwnd, r.left, r.top,
         OrElse(r.right - r.left, FallbackRestoreWidth),
         OrElse(r.bottom - r.top, FallbackRestoreHeight))

\* _animateRestore: the closure of the restore tick of entry.  The start is
\* the current rectangle (GetWindowRect); a failed GetWindowRect, and every
\* coordinate that reads 0, falls back to the target.
RestoreTimer(entry) ==
  LET t == RestoreTarget(entry)
      ok == IsWindow(entry.hwnd)
      c == IF ok THEN winRect[entry.hwnd] ELSE Rect(0, 0, 0, 0)
  IN [hwnd |-> entry.hwnd,
      sx |-> OrElse(c.left, t.x), sy |-> OrElse(c.top, t.y),
      scx |-> OrElse(c.right - c.left, t.cx),
      scy |-> OrElse(c.bottom - c.top, t.cy),
      tx |-> t.x, ty |-> t.y, tcx |-> t.cx, tcy |-> t.cy]

\* A restore that cancels the restore animation of every window.
StopEveryRestoreAnimation(timers, h) == {}

\* _stopRestoreAnimation(hwnd): drops that handle's timer only.
StopRestoreAnimation(timers, h) == {t \in timers : t.hwnd # h}

\* A restoreAll that forgets to cancel the restore animations.
KeepRestoreAnimations(timers) == timers

\* _stopRestoreAnimation(): drops every restore timer.
StopAllRestoreAnimations(timers) == {}


\* ------------------------------------------------------- engine operations

\* addWindow without its first early return (the already-managed test).
AddWindowSkipsManagedTest(mw, h) == ~IsWindow(h)

\* addWindow without its second early return (the IsWindow test).
AddWindowSkipsIsWindowTest(mw, h) == h \in ManagedHwnds(mw)

\* addWindow's two early returns: already managed, or not a window.
AddWindowIsNoOp(mw, h) == h \in ManagedHwnds(mw) \/ ~IsWindow(h)

\* The entry addWindow builds: customTitle null, originalRect the rectangle
\* GetWindowRect reports at the call.
NewEntry(h) == [hwnd |-> h, customTitle |-> "", originalRect |-> winRect[h]]

\* push instead of unshift: the entry goes to the back.
InsertBack(entry, mw) == Append(mw, entry)

\* this.managedWindows.unshift(entry)
InsertFront(entry, mw) == <<entry>> \o mw

\* addWindow's native calls: ShowWindow when minimized, SetForegroundWindow.
AddWindowCalls(h) ==
  [NoCalls EXCEPT !.fg = {h}, !.show = IF IsIconic(h) THEN {h} ELSE {}]

AddWindow(h) ==
  /\ IF AddWindowIsNoOp(managedWindows, h)
     THEN /\ UNCHANGED <<osVars, modelVars>>
          /\ last' = Call("addWindow", h, FALSE, NoCalls)
     ELSE /\ managedWindows' = InsertFront(NewEntry(h), managedWindows)
          /\ activeHwnd' = h
          /\ isIconic' = ShowRestore(isIconic, AddWindowCalls(h).show)
          /\ UNCHANGED <<isWindow, winRect>>
          /\ last' = Call("addWindow", h, FALSE, AddWindowCalls(h))
  /\ UNCHANGED <<dimVars, skipAnimation, restoreTimers, animVars>>
  /\ UNCHANGED hostVars
  /\ Budget

\* splice(idx) without the count: drops the entry and everything after it.
RemoveFrom(mw, idx) == SubSeq(mw, 1, idx - 1)

\* this.managedWindows.splice(idx, 1)
RemoveAt(mw, idx) == SubSeq(mw, 1, idx - 1) \o SubSeq(mw, idx + 1, Len(mw))

\* managedWindows.length > 0 ? managedWindows[0].hwnd : 0
FrontOrNone(mw) == IF Len(mw) > 0 THEN mw[1].hwnd ELSE NoHandle

\* removeWindow without the reassignment of activeHwnd.
ActiveKept(active, h, mw) == active

\* removeWindow: the active handle once h is gone and mw is what remains.
ActiveAfterRemove(active, h, mw) == IF active = h THEN FrontOrNone(mw) ELSE active

RemoveWindow(h) ==
  LET idx == FindIndex(managedWindows, h) IN
  /\ IF idx = 0
     THEN /\ UNCHANGED <<osVars, modelVars, restoreTimers>>
          /\ last' = Call("removeWindow", h, FALSE, NoCalls)
     ELSE LET entry == managedWindows[idx]
              rest == RemoveAt(managedWindows, idx)
          IN /\ managedWindows' = rest
             /\ activeHwnd' = ActiveAfterRemove(activeHwnd, h, rest)
             \* this._animateRestore(entry, () => {})
             /\ IF skipAnimation
                THEN /\ winRect' = SetWindowPos(winRect, RestoreTarget(entry))
                     /\ UNCHANGED restoreTimers
                     /\ last' = Call("removeWindow", h, TRUE,
                                  [NoCalls EXCEPT !.pos = {PosCall(RestoreTarget(entry))}])
                ELSE /\ restoreTimers' =
                          StopRestoreAnimation(restoreTimers, h) \cup {RestoreTimer(entry)}
                     /\ UNCHANGED winRect
                     /\ last' = Call("removeWindow", h, TRUE, NoCalls)
             /\ UNCHANGED <<isWindow, isIconic>>
  /\ UNCHANGED <<dimVars, skipAnimation, animVars>>
  /\ UNCHANGED hostVars
  /\ Budget

\* promoteToActive without the idx === -1 test.
PromoteSkipsManagedTest(mw, active, h) == active = h

\* promoteToActive returns false without acting when h is not managed or is
\* already the active handle.
PromoteIsNoOp(mw, active, h) == FindIndex(mw, h) = 0 \/ active = h

\* SetForegroundWindow whatever forceNativeForeground says.
PromoteAlwaysForces(h, force) ==
  [NoCalls EXCEPT !.show = IF IsIconic(h) THEN {h} ELSE {},
                  !.fg = {h},
                  !.force = force]

\* promoteToActive's native calls: ShowWindow when minimized,
\* SetForegroundWindow when forceNativeForeground.
PromoteCalls(h, force) ==
  [NoCalls EXCEPT !.show = IF IsIconic(h) THEN {h} ELSE {},
                  !.fg = IF force THEN {h} ELSE {},
                  !.force = force]

PromoteToActive(h, force) ==
  /\ IF PromoteIsNoOp(managedWindows, activeHwnd, h)
     THEN /\ UNCHANGED <<osVars, activeHwnd>>
          /\ last' = Call("promoteToActive", h, FALSE, [NoCalls EXCEPT !.force = force])
     ELSE /\ activeHwnd' = h
          /\ isIconic' = ShowRestore(isIconic, PromoteCalls(h, force).show)
          /\ UNCHANGED <<isWindow, winRect>>
          /\ last' = Call("promoteToActive", h, TRUE, PromoteCalls(h, force))
  /\ UNCHANGED <<managedWindows, dimVars, skipAnimation, restoreTimers, animVars>>
  /\ UNCHANGED hostVars
  /\ Budget

\* managedWindows.filter(w => api.IsWindow(w.hwnd) !== 0)
RECURSIVE FilterAlive(_)
FilterAlive(mw) ==
  IF mw = <<>> THEN <<>>
  ELSE (IF IsWindow(Head(mw).hwnd) THEN <<Head(mw)>> ELSE <<>>) \o FilterAlive(Tail(mw))

\* The survival test without IsWindow: the active handle is merely managed.
ActiveStillManaged(mw, active) == active \in ManagedHwnds(mw)

\* activeWindowStillAlive: some entry is alive and is the active handle.
ActiveStillAlive(mw, active) ==
  \E i \in 1 .. Len(mw) : IsWindow(mw[i].hwnd) /\ mw[i].hwnd = active

\* removeDeadWindows: the active handle once `alive` is what remains.
ActiveAfterSweep(mw, active, alive) ==
  IF ActiveStillAlive(mw, active) THEN active ELSE FrontOrNone(alive)

RemoveDeadWindows ==
  LET alive == FilterAlive(managedWindows) IN
  /\ managedWindows' = alive
  /\ activeHwnd' = ActiveAfterSweep(managedWindows, activeHwnd, alive)
  /\ last' = Call("removeDeadWindows", NoHandle, Len(alive) # Len(managedWindows), NoCalls)
  /\ UNCHANGED <<osVars, dimVars, skipAnimation, restoreTimers, animVars>>
  /\ UNCHANGED hostVars
  /\ Budget

\* restoreAll's loop: the entries it restores (those that are still windows).
RECURSIVE RestoreRequests(_)
RestoreRequests(mw) ==
  IF mw = <<>> THEN <<>>
  ELSE (IF IsWindow(Head(mw).hwnd) THEN <<RestoreTarget(Head(mw))>> ELSE <<>>)
       \o RestoreRequests(Tail(mw))

RestoreAll ==
  LET reqs == RestoreRequests(managedWindows) IN
  /\ restoreTimers' = StopAllRestoreAnimations(restoreTimers)
  /\ winRect' = SetWindowPosFrom(winRect, reqs, 1)
  /\ managedWindows' = <<>>
  /\ activeHwnd' = NoHandle
  /\ last' = Call("restoreAll", NoHandle, FALSE,
                  [NoCalls EXCEPT !.pos = {PosCall(reqs[i]) : i \in 1 .. Len(reqs)}])
  /\ UNCHANGED <<isWindow, isIconic, dimVars, skipAnimation, animVars>>
  /\ UNCHANGED hostVars
  /\ Budget

\* renameWindow: entry.customTitle = (customTitle && customTitle.trim()) || null
RenameWindow(h, t) ==
  LET idx == FindIndex(managedWindows, h) IN
  /\ IF idx = 0
     THEN /\ UNCHANGED managedWindows
          /\ last' = Call("renameWindow", h, FALSE, NoCalls)
     ELSE /\ managedWindows' = [managedWindows EXCEPT ![idx].customTitle = t]
          /\ last' = Call("renameWindow", h, TRUE, NoCalls)
  /\ UNCHANGED <<osVars, activeHwnd, dimVars, skipAnimation, restoreTimers, animVars>>
  /\ UNCHANGED hostVars
  /\ Budget

\* setCustomDimensions: null stays null, a number is clamped to >= 200.
ClampCustom(d) == IF d # Null THEN Max(MinCustomDimension, d) ELSE Null

SetCustomDimensions(w, h) ==
  /\ customWidth' = ClampCustom(w)
  /\ customHeight' = ClampCustom(h)
  /\ last' = Call("setCustomDimensions", NoHandle, FALSE, NoCalls)
  /\ UNCHANGED <<osVars, modelVars, skipAnimation, restoreTimers, animVars>>
  /\ UNCHANGED hostVars
  /\ Budget


\* ------------------------------------------------------------------ layout

\* const startX = workArea.x + workArea.width
StartX(sb) == sb.x + sb.width

\* displayRightEdge as passed, or startX + 1920 when absent.
DisplayRightEdge(sb) ==
  IF sb.displayRightEdge # Null THEN sb.displayRightEdge
  ELSE StartX(sb) + FallbackDisplayWidth

AvailableWidth(sb) == DisplayRightEdge(sb) - StartX(sb)

\* effectiveWidth without the Math.min clamp.
UnclampedWidth(cw, sb) == IF cw # Null THEN cw ELSE AvailableWidth(sb)

\* customWidth !== null ? Math.min(customWidth, availableWidth) : availableWidth
EffectiveWidth(cw, sb) ==
  IF cw # Null THEN Min(cw, AvailableWidth(sb)) ELSE AvailableWidth(sb)

\* customHeight !== null ? Math.min(customHeight, availableHeight) : availableHeight
EffectiveHeight(ch, sb) == IF ch # Null THEN Min(ch, sb.height) ELSE sb.height

\* The front entry taken as the active one whatever activeHwnd says.
FrontAsActive(mw, active) == mw[1].hwnd

\* activeIdx !== -1 ? managedWindows[activeIdx] : managedWindows[0]
TrueActiveHwnd(mw, active) ==
  IF FindIndex(mw, active) # 0 THEN active ELSE mw[1].hwnd

\* The cap at 80% instead of 60%.
MaxStripAreaEightTenths(effH) == (effH * 8) \div 10

\* Math.floor(effectiveHeight * 0.6)
MaxStripArea(effH) == (effH * 6) \div 10

\* effectiveHeaderHeight without the Math.max(..., 10) floor.
StripHeightWithoutFloor(inactiveCount, effH) ==
  IF inactiveCount * HEADER_HEIGHT > MaxStripArea(effH)
  THEN MaxStripArea(effH) \div inactiveCount
  ELSE HEADER_HEIGHT

\* effectiveHeaderHeight
StripHeight(inactiveCount, effH) ==
  IF inactiveCount * HEADER_HEIGHT > MaxStripArea(effH)
  THEN Max(MaxStripArea(effH) \div inactiveCount, MinStripHeight)
  ELSE HEADER_HEIGHT

\* cy of the active window
ActiveHeight(inactiveCount, strip, effH) ==
  LET activeHeight == effH - inactiveCount * strip IN
  IF activeHeight > MinActiveHeight THEN activeHeight ELSE effH

\* One element of targetLayouts.
Target(h, x, y, cx, cy) ==
  [hwnd |-> h, x |-> x, y |-> y, cx |-> cx, cy |-> cy, restore |-> IsIconic(h)]

\* targetLayouts: the inactive windows in managedWindows order, then the
\* active one.  <<>> when layoutStack returns early.
LayoutTargets(mw, active, cw, ch, sb) ==
  IF Len(mw) = 0 \/ AvailableWidth(sb) < MinAvailableWidth THEN <<>>
  ELSE
    LET trueActive == TrueActiveHwnd(mw, active)
        inactive == SelectSeq(mw, LAMBDA w : w.hwnd # trueActive)
        inactiveCount == Len(mw) - 1
        effW == EffectiveWidth(cw, sb)
        effH == EffectiveHeight(ch, sb)
        strip == StripHeight(inactiveCount, effH)
    IN [i \in 1 .. Len(inactive) |->
          Target(inactive[i].hwnd, StartX(sb), sb.y + (i - 1) * strip, effW, effH)]
       \o <<Target(trueActive, StartX(sb), sb.y + inactiveCount * strip, effW,
                   ActiveHeight(inactiveCount, strip, effH))>>

\* targetsKey: hwnd:x,y,cx,cy of every target, in order.
TargetsKey(targets) ==
  [i \in 1 .. Len(targets) |->
     PosReq(targets[i].hwnd, targets[i].x, targets[i].y, targets[i].cx, targets[i].cy)]

\* Handles ShowWindow(SW_RESTORE) is called on among targets[1..upTo].
RestoreSet(targets, upTo) ==
  {targets[i].hwnd : i \in {j \in 1 .. Min(upTo, Len(targets)) : targets[j].restore}}

\* `layouts`: each target with the rectangle GetWindowRect reports as the
\* start (the target itself when the call fails).
AnimLayouts(targets) ==
  [i \in 1 .. Len(targets) |->
     LET t == targets[i]
         c == IF IsWindow(t.hwnd) THEN winRect[t.hwnd]
              ELSE Rect(t.x, t.y, t.x + t.cx, t.y + t.cy)
     IN [hwnd |-> t.hwnd, sx |-> c.left, sy |-> c.top,
         scx |-> c.right - c.left, scy |-> c.bottom - c.top,
         tx |-> t.x, ty |-> t.y, tcx |-> t.cx, tcy |-> t.cy]]

\* The redundant-request test of _animateLayout.
IsRedundant(key) == key = currentTargets /\ animTimer

PosCalls(reqs) == {PosCall(reqs[i]) : i \in 1 .. Len(reqs)}

\* The timer this._animationTimer refers to.
ReferencedTick == IF animTimer THEN {animLayouts} ELSE {}

\* A new animation that leaves the timer of the one in flight alone.
KeepAnimation(ticks) == ticks

\* _stopAnimation: clearTimeout(this._animationTimer), the pending timers
\* that are left.
StopAnimation(ticks) == ticks \ ReferencedTick

\* _animateLayout(targets) for non-empty targets.
AnimateLayout(targets, calls) ==
  LET key == TargetsKey(targets) IN
  IF skipAnimation
  THEN \* one deferred batch, abandoned at the first DeferWindowPos that fails
       LET bad == FirstInvalid(key)
           upTo == IF bad = 0 THEN Len(key) ELSE bad
           shown == RestoreSet(targets, upTo)
       IN /\ isIconic' = ShowRestore(isIconic, shown)
          /\ winRect' = DeferBatch(winRect, key, FALSE)
          /\ UNCHANGED <<isWindow, animVars>>
          /\ last' = Call("layoutStack", NoHandle, TRUE,
                          [calls EXCEPT !.show = shown,
                                        !.pos = PosCalls(SubSeq(key, 1, upTo))])
  ELSE IF IsRedundant(key)
  THEN /\ UNCHANGED <<osVars, animVars>>
       /\ last' = Call("layoutStack", NoHandle, FALSE, calls)
  ELSE \* _stopAnimation, then the new animation and its first timer
       /\ isIconic' = ShowRestore(isIconic, RestoreSet(targets, Len(targets)))
       /\ currentTargets' = key
       /\ animLayouts' = AnimLayouts(targets)
       /\ animTimer' = TRUE
       /\ animTicks' = StopAnimation(animTicks) \cup {AnimLayouts(targets)}
       /\ UNCHANGED <<isWindow, winRect>>
       /\ last' = Call("layoutStack", NoHandle, TRUE,
                       [calls EXCEPT !.show = RestoreSet(targets, Len(targets)),
                                     !.cleared = StopAnimation(animTicks) # animTicks])

\* layoutStack(screenBounds), with the _animateLayout call that ends it: what
\* it does to the engine and the windows.
LayoutStackCall(sb) ==
  /\ \E targets \in {LayoutTargets(managedWindows, activeHwnd, customWidth,
                                   customHeight, sb)} :
       LET calls == [NoCalls EXCEPT !.targets = targets, !.sb = sb] IN
       IF targets = <<>>
       THEN /\ UNCHANGED <<osVars, animVars>>
            /\ last' = Call("layoutStack", NoHandle, FALSE, calls)
       ELSE AnimateLayout(targets, calls)
  /\ UNCHANGED <<modelVars, dimVars, skipAnimation, restoreTimers>>
  /\ Budget

LayoutStack(sb) ==
  /\ LayoutStackCall(sb)
  /\ UNCHANGED hostVars

\* The layout animation's tick at progress k/AnimSteps.
AnimTick(k) ==
  \E layouts \in animTicks :
  /\ LET frame == [i \in 1 .. Len(layouts) |-> FrameReq(layouts[i], k)]
         final == [i \in 1 .. Len(layouts) |-> TargetReq(layouts[i])]
         afterFrame == DeferBatch(winRect, frame, TRUE)
     IN IF k >= AnimSteps
        THEN \* progress >= 1: _stopAnimation, then the final exact-target batch
             /\ animTimer' = FALSE
             /\ currentTargets' = <<>>
             /\ animLayouts' = <<>>
             /\ animTicks' = StopAnimation(animTicks \ {layouts})
             /\ winRect' = [h \in DOMAIN winRect |->
                              DeferBatch(afterFrame, final, TRUE)[h]]
             /\ last' = Call("animTick", NoHandle, TRUE,
                             [NoCalls EXCEPT !.pos = PosCalls(frame) \cup PosCalls(final)])
        ELSE \* this._animationTimer = setTimeout(tick, 1000 / 30)
             /\ winRect' = afterFrame
             /\ animTimer' = TRUE
             /\ animLayouts' = layouts
             /\ UNCHANGED <<currentTargets, animTicks>>
             /\ last' = Call("animTick", NoHandle, FALSE,
                             [NoCalls EXCEPT !.pos = PosCalls(frame)])
  /\ UNCHANGED <<isWindow, isIconic, modelVars, dimVars, skipAnimation, restoreTimers>>
  /\ UNCHANGED hostVars
  /\ Budget

\* The restore animation's tick of timer t at progress k/AnimSteps.
RestoreTick(t, k) ==
  /\ t \in restoreTimers
  /\ IF k >= AnimSteps
     THEN /\ restoreTimers' = restoreTimers \ {t}
          /\ winRect' = SetWindowPos(winRect, TargetReq(t))
          /\ last' = Call("restoreTick", t.hwnd, TRUE,
                          [NoCalls EXCEPT !.pos = {PosCall(TargetReq(t))}])
     ELSE /\ UNCHANGED restoreTimers
          /\ winRect' = SetWindowPos(winRect, FrameReq(t, k))
          /\ last' = Call("restoreTick", t.hwnd, FALSE,
                          [NoCalls EXCEPT !.pos = {PosCall(FrameReq(t, k))}])
  /\ UNCHANGED <<isWindow, isIconic, modelVars, dimVars, skipAnimation, animVars>>
  /\ UNCHANGED hostVars
  /\ Budget

\* --------------------------------------------- failing native calls in a tick

\* The native calls of a layout tick that can throw, and those of a restore
\* tick.
LayoutTickSites ==
  {"BeginDeferWindowPos", "DeferWindowPos", "EndDeferWindowPos", "SetWindowPos"}

RestoreTickSites == {"SetWindowPos"}

\* The call sites of the layout tick that lie inside its try block (every
\* native call of the tick does), and those of the restore tick.
LayoutTrySites ==
  {"BeginDeferWindowPos", "DeferWindowPos", "EndDeferWindowPos", "SetWindowPos"}

RestoreTrySites == {"SetWindowPos"}

\* A failure path that snaps no window.
SnapNothing(layouts) == <<>>

\* The failure paths of the layout tick: SetWindowPos with the exact target
\* for every layout, in order.
SnapRequests(layouts) == [i \in 1 .. Len(layouts) |-> TargetReq(layouts[i])]

\* A layout tick in which BeginDeferWindowPos returns 0 (site = "none") or
\* the native call at `site` throws.  Either way the deferred batch of the
\* frame is not committed; the tick stops the animation and calls
\* SetWindowPos with the target of every layout.  ret: whether the exception
\* left the callback.
AnimTickFails(site) ==
  \E layouts \in animTicks :
  /\ animTimer' = FALSE
  /\ currentTargets' = <<>>
  /\ animLayouts' = <<>>
  /\ animTicks' = StopAnimation(animTicks \ {layouts})
  /\ winRect' = [h \in DOMAIN winRect |->
                   SetWindowPosFrom(winRect, SnapRequests(layouts), 1)[h]]
  /\ last' = Call("animTickFailed", NoHandle,
                  site # "none" /\ site \notin LayoutTrySites,
                  [NoCalls EXCEPT !.pos = PosCalls(SnapRequests(layouts))])
  /\ UNCHANGED <<isWindow, isIconic, modelVars, dimVars, skipAnimation, restoreTimers>>
  /\ UNCHANGED hostVars
  /\ Budget

\* A restore tick of timer t whose SetWindowPos throws: the timer is dropped
\* and the window is set on its target at once.
RestoreTickFails(t, site) ==
  /\ t \in restoreTimers
  /\ restoreTimers' = restoreTimers \ {t}
  /\ winRect' = SetWindowPos(winRect, TargetReq(t))
  /\ last' = Call("restoreTickFailed", t.hwnd, site \notin RestoreTrySites,
                  [NoCalls EXCEPT !.pos = {PosCall(TargetReq(t))}])
  /\ UNCHANGED <<isWindow, isIconic, modelVars, dimVars, skipAnimation, animVars>>
  /\ UNCHANGED hostVars
  /\ Budget

\* ------------------------------------------------------ the controller panel

\* mainWindow.on('focus'), once its 200 ms debounce timer fires: the panel
\* hands the foreground to the active window when that is still a window.
PanelFocusCall ==
  /\ last' = Call("panelFocus", activeHwnd, FALSE,
                  [NoCalls EXCEPT !.fg = IF activeHwnd > 0 /\ IsWindow(activeHwnd)
                                         THEN {activeHwnd} ELSE {}])
  /\ UNCHANGED <<osVars, modelVars, dimVars, skipAnimation, restoreTimers, animVars>>
  /\ Budget

PanelFocus ==
  /\ PanelFocusCall
  /\ UNCHANGED hostVars

\* ------------------------------------------------------------- environment

\* The window is destroyed outside the program: the handle stops being valid.
OsClose(h) ==
  /\ isWindow[h]
  /\ isWindow' = [isWindow EXCEPT ![h] = FALSE]
  /\ isIconic' = [isIconic EXCEPT ![h] = FALSE]
  /\ last' = Call("os", h, FALSE, NoCalls)
  /\ UNCHANGED <<winRect, modelVars, dimVars, skipAnimation, restoreTimers, animVars>>
  /\ UNCHANGED hostVars
  /\ Budget

\* The user minimizes the window.
OsMinimize(h) ==
  /\ isWindow[h] /\ ~isIconic[h]
  /\ isIconic' = [isIconic EXCEPT ![h] = TRUE]
  /\ last' = Call("os", h, FALSE, NoCalls)
  /\ UNCHANGED <<isWindow, winRect, modelVars, dimVars, skipAnimation, restoreTimers, animVars>>
  /\ UNCHANGED hostVars
  /\ Budget

\* ----------------------------------------------------------- the monitors

\* The window of this process (the controller panel): the handle whose
\* GetWindowThreadProcessId is process.pid.
OwnWindows == {MaxHandle}

\* What GetForegroundWindow can return: a window, or 0 for none.
ForegroundValues == 0 .. MaxHandle

\* idObject of a WinEvent: OBJID_WINDOW or another object kind.
ObjectKinds == {"window", "other"}

\* The record of a monitor call or OS event: calls is the number of times
\* the user callback was invoked by it, with argument hwnd.
MonCall(op, h, calls) == [op |-> op, hwnd |-> h, calls |-> calls]

\* A timer or hook handle not in use.
FreshId(used) == CHOOSE i \in 1 .. MaxMonitorStarts :
                   i \notin used /\ \A j \in 1 .. (i - 1) : j \in used

\* The foreground change onto h is one onFocusChange is owed for: the monitor
\* is started and not stopped, h is managed and h is not this process's.
FocusArrivalCounts(h) ==
  fmTimer # 0 /\ h # 0 /\ h \in fmManaged /\ h \notin OwnWindows

\* The foreground window changes (a click, Alt-Tab, a window closing).
OsFocus(h) ==
  /\ h # fgWindow
  /\ focusChanges < MaxFocusChanges
  /\ focusChanges' = focusChanges + 1
  /\ fgWindow' = h
  /\ fmArrivals' = IF FocusArrivalCounts(h) THEN fmArrivals + 1 ELSE fmArrivals
  /\ monLast' = MonCall("osFocus", h, 0)
  /\ UNCHANGED <<fmTimer, fmIntervals, fmLastForeground, fmManaged, fmOnFocusChange,
                 fmReports, resizeVars, engineVars, registryVars, restVars>>

\* ForegroundMonitor.start(onFocusChange)
FocusStart ==
  /\ \E i \in 1 .. MaxMonitorStarts : i \notin fmIntervals
  /\ fmOnFocusChange' = TRUE
  /\ fmLastForeground' = fgWindow
  /\ fmTimer' = FreshId(fmIntervals)
  /\ fmIntervals' = fmIntervals \cup {FreshId(fmIntervals)}
  /\ fmArrivals' = 0
  /\ fmReports' = 0
  /\ monLast' = MonCall("focusStart", 0, 0)
  /\ UNCHANGED <<fgWindow, fmManaged, focusChanges, resizeVars, engineVars, registryVars, restVars>>

\* ForegroundMonitor.stop()
FocusStop ==
  /\ IF fmTimer # 0
     THEN fmIntervals' = fmIntervals \ {fmTimer} /\ fmTimer' = 0
     ELSE UNCHANGED <<fmIntervals, fmTimer>>
  /\ fmArrivals' = 0
  /\ fmReports' = 0
  /\ monLast' = MonCall("focusStop", 0, 0)
  /\ UNCHANGED <<fgWindow, fmLastForeground, fmManaged, fmOnFocusChange,
                 focusChanges, resizeVars, engineVars, registryVars, restVars>>

\* ForegroundMonitor.updateManagedSet(hwnds)
FocusUpdateManagedSet(hwnds) ==
  /\ fmManaged' = hwnds
  /\ fmArrivals' = 0
  /\ fmReports' = 0
  /\ monLast' = MonCall("focusUpdate", 0, 0)
  /\ UNCHANGED <<fgWindow, fmTimer, fmIntervals, fmLastForeground, fmOnFocusChange,
                 focusChanges, resizeVars, engineVars, registryVars, restVars>>

\* _poll without the own-process test.
PollIgnoresOwner(current, managed) ==
  current # 0 /\ current \in managed /\ fmOnFocusChange

\* _poll, past the "no change" test: whether onFocusChange(current) is called.
PollReports(current, managed) ==
  current # 0 /\ current \notin OwnWindows /\ current \in managed /\ fmOnFocusChange

\* ForegroundMonitor._poll, run by the interval timer i.
FocusPoll(i) ==
  /\ i \in fmIntervals
  /\ LET current == fgWindow IN
     IF current = fmLastForeground
     THEN /\ UNCHANGED <<fmLastForeground, fmReports>>
          /\ monLast' = MonCall("poll", current, 0)
     ELSE /\ fmLastForeground' = current
          /\ IF PollReports(current, fmManaged)
             THEN /\ fmReports' = fmReports + 1
                  /\ monLast' = MonCall("poll", current, 1)
             ELSE /\ UNCHANGED fmReports
                  /\ monLast' = MonCall("poll", current, 0)
  /\ UNCHANGED <<fgWindow, fmTimer, fmIntervals, fmManaged, fmOnFocusChange,
                 fmArrivals, focusChanges, resizeVars, engineVars, registryVars, restVars>>

\* ResizeMonitor.start(onResizeEnd): koffi.register, then SetWinEventHook.
ResizeStart ==
  /\ \E i \in 1 .. MaxMonitorStarts : i \notin rmHooks \cup rmCallbacks
  /\ rmOnResizeEnd' = TRUE
  /\ rmCallback' = FreshId(rmHooks \cup rmCallbacks)
  /\ rmCallbacks' = rmCallbacks \cup {FreshId(rmHooks \cup rmCallbacks)}
  /\ rmHook' = FreshId(rmHooks \cup rmCallbacks)
  /\ rmHooks' = rmHooks \cup {FreshId(rmHooks \cup rmCallbacks)}
  /\ monLast' = MonCall("resizeStart", 0, 0)
  /\ UNCHANGED <<rmManaged, rmSkipOwn, focusVars, engineVars, registryVars, restVars>>

\* ResizeMonitor.stop(): UnhookWinEvent, then koffi.unregister.
ResizeStop ==
  /\ IF rmHook # 0
     THEN rmHooks' = rmHooks \ {rmHook} /\ rmHook' = 0
     ELSE UNCHANGED <<rmHooks, rmHook>>
  /\ IF rmCallback # 0
     THEN rmCallbacks' = rmCallbacks \ {rmCallback} /\ rmCallback' = 0
     ELSE UNCHANGED <<rmCallbacks, rmCallback>>
  /\ monLast' = MonCall("resizeStop", 0, 0)
  /\ UNCHANGED <<rmManaged, rmOnResizeEnd, rmSkipOwn, focusVars, engineVars, registryVars, restVars>>

\* ResizeMonitor.updateManagedSet(hwnds)
ResizeUpdateManagedSet(hwnds) ==
  /\ rmManaged' = hwnds
  /\ monLast' = MonCall("resizeUpdate", 0, 0)
  /\ UNCHANGED <<rmHook, rmHooks, rmCallback, rmCallbacks, rmOnResizeEnd, rmSkipOwn,
                 focusVars, engineVars, registryVars, restVars>>

\* The hooks an event on window h is delivered to: none of those installed
\* with WINEVENT_SKIPOWNPROCESS when the event comes from this process.
HooksReached(h) == IF rmSkipOwn /\ h \in OwnWindows THEN {} ELSE rmHooks

\* The registered callback: whether it calls onResizeEnd(hwnd).
ResizeCallbackReports(h, idObject, managed) ==
  idObject = "window" /\ h # 0 /\ h \in managed

\* EVENT_SYSTEM_MOVESIZEEND on window h for object kind idObject: the OS
\* calls the callback of every hook the event reaches.
OsMoveSizeEnd(h, idObject) ==
  /\ monLast' = MonCall(IF idObject = "window" THEN "moveSizeEnd" ELSE "moveSizeEndOther",
                        h,
                        IF ResizeCallbackReports(h, idObject, rmManaged)
                        THEN Cardinality(HooksReached(h)) ELSE 0)
  /\ UNCHANGED <<resizeVars, focusVars, engineVars, registryVars, restVars>>

\* The focus monitor as its constructor leaves it, with no foreground window.
\* ---------------------------------------------------------------------
\* Instance registry: several processes, each with one stack, sharing
\* instance-registry.json.  An instance's id stands for its process; every other
\* process's engine is kept as the set of handles it manages.
\* ---------------------------------------------------------------------

MaxInstances == 2

MaxSharedWindows == 2

\* this._DEBOUNCE_MS, in clock ticks.
DebounceTicks == 2

Instances == 1 .. MaxInstances

\* The top-level windows of other applications that every instance enumerates.
SharedWindows == 1 .. MaxSharedWindows

EmptyRegistry == [i \in {} |-> {}]

\* A registry operation or file step: who did it, what it returned or wrote.
RegCall(op, i, result, wrote) ==
  [op |-> op, inst |-> i, result |-> result, wrote |-> wrote, threw |-> FALSE]

\* A registry operation that ended by throwing to its caller.
RegThrew(op, i) ==
  [op |-> op, inst |-> i, result |-> {}, wrote |-> FALSE, threw |-> TRUE]

NoBurst == [calls |-> 0, lastArg |-> {}, since |-> 0, writes |-> 0]

NoOp == [kind |-> "none", pc |-> "idle", arg |-> {}, local |-> EmptyRegistry]

\* _readRegistry on a file in the given state: a missing file and one that
\* JSON.parse rejects give { instances: {} }.
ReadRegistry(state, file) ==
  IF state = "complete" THEN file ELSE EmptyRegistry

\* _isPidAlive for the entry of instance k: process.kill(pid, 0) succeeds.
IsPidAlive(k) == instLive[k]

\* _pruneDeadInstances: the entries whose process is alive.
PruneDeadInstances(registry) ==
  [j \in {k \in DOMAIN registry : IsPidAlive(k)} |-> registry[j]]

\* The union over every entry, the caller's included.
AllInstancesHwnds(i, registry) ==
  UNION {registry[j] : j \in DOMAIN registry}

\* The result of getOtherInstancesHwnds for instance i on a pruned registry.
OtherInstancesHwnds(i, registry) ==
  UNION {registry[j] : j \in DOMAIN registry \ {i}}

\* _register: the pruned registry with a fresh entry for instance i.
Registered(i, registry) ==
  [j \in {k \in DOMAIN registry : IsPidAlive(k)} \cup {i} |->
     IF j = i THEN {} ELSE registry[j]]

\* A registry in which the entry of instance i is emptied but kept.
EntryEmptied(i, registry) ==
  [j \in DOMAIN registry |-> IF j = i THEN {} ELSE registry[j]]

\* unregister: the registry without the entry of instance i.
Unregistered(i, registry) ==
  [j \in DOMAIN registry \ {i} |-> registry[j]]

\* A new timer next to the earlier ones, none cleared.
ArmedWithoutClearing(i, hwnds) ==
  instPending[i] \cup {[hwnds |-> hwnds, due |-> DebounceTicks]}

\* updateManagedHwnds: the timers alive after the call.
ReArmed(i, hwnds) ==
  (instPending[i] \ instDebounceTimer[i])
    \cup {[hwnds |-> hwnds, due |-> DebounceTicks]}

\* updateManagedHwnds(hwnds) of instance i.
UpdateManagedHwnds(i, hwnds) ==
  /\ instPending' = [instPending EXCEPT ![i] = ReArmed(i, hwnds)]
  /\ instDebounceTimer' = [instDebounceTimer EXCEPT ![i] =
       {[hwnds |-> hwnds, due |-> DebounceTicks]}]
  /\ instBurst' = [instBurst EXCEPT ![i] =
       [calls |-> IF instPending[i] = {} THEN 1 ELSE Min(@.calls + 1, 2),
        lastArg |-> hwnds, since |-> 0,
        writes |-> IF instPending[i] = {} THEN 0 ELSE @.writes]]

\* Process start: init() prunes dead entries and registers the instance with
\* an empty managedHwnds.
Launch(i) ==
  /\ ~instLive[i]
  /\ instLive' = [instLive EXCEPT ![i] = TRUE]
  /\ instCleanedUp' = [instCleanedUp EXCEPT ![i] = FALSE]
  /\ instBurst' = [instBurst EXCEPT ![i] = NoBurst]
  /\ registryState' = "complete"
  /\ registryFile' = Registered(i, ReadRegistry(registryState, registryFile))
  /\ regLast' = RegCall("register", i, {}, TRUE)
  /\ UNCHANGED <<instManaged, instListed, instPending, instDebounceTimer, instOp,
                 tmpState, tmpFile>>
  /\ UNCHANGED <<focusVars, resizeVars, monLast, engineVars, restVars>>

\* 'get-available-windows': getOtherInstancesHwnds (prune, write back, union
\* of the other entries), then getAvailableWindows without the instance's own
\* and the excluded handles.
ListAvailable(i) ==
  /\ instLive[i]
  /\ \E pruned \in {PruneDeadInstances(ReadRegistry(registryState, registryFile))} :
       /\ registryState' = "complete"
       /\ registryFile' = pruned
       /\ instListed' = [instListed EXCEPT ![i] =
            {h \in SharedWindows :
               /\ isWindow[h] /\ ~isIconic[h]
               /\ h \notin instManaged[i]
               /\ h \notin OtherInstancesHwnds(i, pruned)}]
       /\ regLast' = RegCall("getOthers", i, OtherInstancesHwnds(i, pruned), TRUE)
  /\ UNCHANGED <<instLive, instCleanedUp, instManaged, instPending,
                 instDebounceTimer, instBurst, instOp, tmpState, tmpFile>>
  /\ UNCHANGED <<focusVars, resizeVars, monLast, engineVars, restVars>>

\* 'add-window' for a window picked from the panel's list: addWindow, then
\* updateManagedHwnds(getManagedHwnds()), which re-arms the debounce timer.
AddWindowIpc(i, h) ==
  /\ instLive[i]
  /\ h \in instListed[i]
  /\ instManaged' = [instManaged EXCEPT ![i] =
       IF IsWindow(h) THEN @ \cup {h} ELSE @]
  /\ UpdateManagedHwnds(i, instManaged'[i])
  /\ regLast' = RegCall("update", i, instManaged'[i], FALSE)
  /\ UNCHANGED <<instLive, instCleanedUp, instListed, instOp, registryState,
                 registryFile, tmpState, tmpFile>>
  /\ UNCHANGED <<focusVars, resizeVars, monLast, engineVars, restVars>>

\* 'remove-window': removeWindow, then updateManagedHwnds(getManagedHwnds()).
RemoveWindowIpc(i, h) ==
  /\ instLive[i]
  /\ h \in instManaged[i]
  /\ instManaged' = [instManaged EXCEPT ![i] = @ \ {h}]
  /\ UpdateManagedHwnds(i, instManaged'[i])
  /\ regLast' = RegCall("update", i, instManaged'[i], FALSE)
  /\ UNCHANGED <<instLive, instCleanedUp, instListed, instOp, registryState,
                 registryFile, tmpState, tmpFile>>
  /\ UNCHANGED <<focusVars, resizeVars, monLast, engineVars, restVars>>

\* A timer of updateManagedHwnds fires: it clears _debounceTimer, and
\* _flushManagedHwnds writes the handles of its call into the instance's
\* entry, if the registry has one.
FlushManagedHwnds(i) ==
  /\ instLive[i]
  /\ \E t \in instPending[i] :
       /\ t.due = 0
       /\ instPending' = [instPending EXCEPT ![i] = @ \ {t}]
       /\ instDebounceTimer' = [instDebounceTimer EXCEPT ![i] = {}]
       /\ \E registry \in {ReadRegistry(registryState, registryFile)} :
            IF i \in DOMAIN registry
            THEN /\ registryState' = "complete"
                 /\ registryFile' = [registry EXCEPT ![i] = t.hwnds]
                 /\ instBurst' = [instBurst EXCEPT ![i].writes = Min(@ + 1, 2)]
                 /\ regLast' = RegCall("flush", i, t.hwnds, TRUE)
            ELSE /\ UNCHANGED <<registryState, registryFile, instBurst>>
                 /\ regLast' = RegCall("flush", i, t.hwnds, FALSE)
  /\ UNCHANGED <<instLive, instCleanedUp, instManaged, instListed, instOp,
                 tmpState, tmpFile>>
  /\ UNCHANGED <<focusVars, resizeVars, monLast, engineVars, restVars>>

\* Time passes by one tick, unless a timer is due: every timer comes one tick
\* closer.
ClockTick ==
  /\ \E i \in Instances : instPending[i] # {}
  /\ \A i \in Instances : \A t \in instPending[i] : t.due > 0
  /\ instPending' = [i \in Instances |->
       {[t EXCEPT !.due = @ - 1] : t \in instPending[i]}]
  /\ instDebounceTimer' = [i \in Instances |->
       {[t EXCEPT !.due = @ - 1] : t \in instDebounceTimer[i]}]
  /\ instBurst' = [i \in Instances |->
       [instBurst[i] EXCEPT !.since =
          IF instBurst[i].calls > 0 THEN Min(@ + 1, DebounceTicks) ELSE @]]
  /\ regLast' = RegCall("tick", 0, {}, FALSE)
  /\ UNCHANGED <<instLive, instCleanedUp, instManaged, instListed, instOp,
                 registryState, registryFile, tmpState, tmpFile>>
  /\ UNCHANGED <<focusVars, resizeVars, monLast, engineVars, restVars>>

\* Graceful shutdown: performCleanup restores and clears the stack, and
\* unregister cancels the pending write and deletes the instance's entry, or
\* the file when no entry remains.
Unregister(i) ==
  /\ instLive[i]
  /\ ~instCleanedUp[i]
  /\ instCleanedUp' = [instCleanedUp EXCEPT ![i] = TRUE]
  /\ instManaged' = [instManaged EXCEPT ![i] = {}]
  /\ instPending' = [instPending EXCEPT ![i] = @ \ instDebounceTimer[i]]
  /\ instDebounceTimer' = [instDebounceTimer EXCEPT ![i] = {}]
  /\ \E rest \in {Unregistered(i, ReadRegistry(registryState, registryFile))} :
       IF DOMAIN rest = {}
       THEN /\ registryState' = "absent"
            /\ registryFile' = EmptyRegistry
       ELSE /\ registryState' = "complete"
            /\ registryFile' = rest
  /\ regLast' = RegCall("unregister", i, {}, TRUE)
  /\ UNCHANGED <<instLive, instListed, instBurst, instOp, tmpState, tmpFile>>
  /\ UNCHANGED <<focusVars, resizeVars, monLast, engineVars, restVars>>

\* The process ends after its cleanup.
Exit(i) ==
  /\ instLive[i]
  /\ instCleanedUp[i]
  /\ instLive' = [instLive EXCEPT ![i] = FALSE]
  /\ instManaged' = [instManaged EXCEPT ![i] = {}]
  /\ instListed' = [instListed EXCEPT ![i] = {}]
  /\ instPending' = [instPending EXCEPT ![i] = {}]
  /\ instDebounceTimer' = [instDebounceTimer EXCEPT ![i] = {}]
  /\ instBurst' = [instBurst EXCEPT ![i] = NoBurst]
  /\ regLast' = RegCall("exit", i, {}, FALSE)
  /\ UNCHANGED <<instCleanedUp, instOp, registryState, registryFile, tmpState,
                 tmpFile>>
  /\ UNCHANGED <<focusVars, resizeVars, monLast, engineVars, restVars>>

\* The process dies without cleanup: its entry stays until someone prunes it.
Crash(i) ==
  /\ instLive[i]
  /\ ~instCleanedUp[i]
  /\ instLive' = [instLive EXCEPT ![i] = FALSE]
  /\ instManaged' = [instManaged EXCEPT ![i] = {}]
  /\ instListed' = [instListed EXCEPT ![i] = {}]
  /\ instPending' = [instPending EXCEPT ![i] = {}]
  /\ instDebounceTimer' = [instDebounceTimer EXCEPT ![i] = {}]
  /\ instBurst' = [instBurst EXCEPT ![i] = NoBurst]
  /\ regLast' = RegCall("crash", i, {}, FALSE)
  /\ UNCHANGED <<instCleanedUp, instOp, registryState, registryFile, tmpState,
                 tmpFile>>
  /\ UNCHANGED <<focusVars, resizeVars, monLast, engineVars, restVars>>

\* ---------------------------------------------------------------------
\* The same registry operations at the level of the file system calls they
\* make: existsSync/readFileSync, then writeFileSync to the shared path
\* instance-registry.json.tmp (open with truncation, then write), then
\* renameSync onto instance-registry.json, or unlinkSync.  Calls of different
\* processes interleave.
\* ---------------------------------------------------------------------

\* The operation instance i starts next.
Begin(i, kind, arg) ==
  /\ instOp' = [instOp EXCEPT ![i] =
       [kind |-> kind, pc |-> "read", arg |-> arg, local |-> EmptyRegistry]]
  /\ regLast' = RegCall("fileBegin", i, arg, FALSE)
  /\ UNCHANGED <<instManaged, instListed, instPending, instDebounceTimer,
                 instBurst, registryState, registryFile, tmpState, tmpFile>>
  /\ UNCHANGED <<focusVars, resizeVars, monLast, engineVars, restVars>>

\* Process start: init() calls _register.
FileLaunch(i) ==
  /\ ~instLive[i]
  /\ instLive' = [instLive EXCEPT ![i] = TRUE]
  /\ instCleanedUp' = [instCleanedUp EXCEPT ![i] = FALSE]
  /\ Begin(i, "register", {})

\* The debounce timer fires with the handles of the last updateManagedHwnds.
FileBeginFlush(i, hwnds) ==
  /\ instLive[i]
  /\ instOp[i].pc = "idle"
  /\ Begin(i, "flush", hwnds)
  /\ UNCHANGED <<instLive, instCleanedUp>>

FileBeginGetOthers(i) ==
  /\ instLive[i]
  /\ instOp[i].pc = "idle"
  /\ Begin(i, "getOthers", {})
  /\ UNCHANGED <<instLive, instCleanedUp>>

FileBeginUnregister(i) ==
  /\ instLive[i]
  /\ ~instCleanedUp[i]
  /\ instOp[i].pc = "idle"
  /\ instCleanedUp' = [instCleanedUp EXCEPT ![i] = TRUE]
  /\ Begin(i, "unregister", {})
  /\ UNCHANGED instLive

\* What the operation does with the registry it has read: the value it will
\* write and its next file system call.
AfterRead(i, op, registry) ==
  CASE op.kind = "register" ->
         [op EXCEPT !.pc = "truncate", !.local = Registered(i, registry)]
    [] op.kind = "getOthers" ->
         [op EXCEPT !.pc = "truncate", !.local = PruneDeadInstances(registry)]
    [] op.kind = "flush" ->
         IF i \in DOMAIN registry
         THEN [op EXCEPT !.pc = "truncate",
                         !.local = [registry EXCEPT ![i] = op.arg]]
         ELSE NoOp
    [] OTHER ->
         IF DOMAIN Unregistered(i, registry) = {}
         THEN [op EXCEPT !.pc = "unlink"]
         ELSE [op EXCEPT !.pc = "truncate", !.local = Unregistered(i, registry)]

\* _readRegistry.
FileRead(i) ==
  /\ instLive[i]
  /\ instOp[i].pc = "read"
  /\ instOp' = [instOp EXCEPT ![i] =
       AfterRead(i, @, ReadRegistry(registryState, registryFile))]
  /\ regLast' = RegCall("fileRead", i,
       IF instOp[i].kind = "getOthers"
       THEN OtherInstancesHwnds(i,
              PruneDeadInstances(ReadRegistry(registryState, registryFile)))
       ELSE {}, FALSE)
  /\ UNCHANGED <<instLive, instCleanedUp, instManaged, instListed, instPending,
                 instDebounceTimer, instBurst, registryState, registryFile,
                 tmpState, tmpFile>>
  /\ UNCHANGED <<focusVars, resizeVars, monLast, engineVars, restVars>>

\* writeFileSync(tmpPath, ...), first half: the file is created or emptied.
FileTruncate(i) ==
  /\ instLive[i]
  /\ instOp[i].pc = "truncate"
  /\ tmpState' = "partial"
  /\ tmpFile' = EmptyRegistry
  /\ instOp' = [instOp EXCEPT ![i].pc = "fill"]
  /\ regLast' = RegCall("fileTruncate", i, {}, FALSE)
  /\ UNCHANGED <<instLive, instCleanedUp, instManaged, instListed, instPending,
                 instDebounceTimer, instBurst, registryState, registryFile>>
  /\ UNCHANGED <<focusVars, resizeVars, monLast, engineVars, restVars>>

\* writeFileSync(tmpPath, ...), second half: the bytes are written to the file
\* that was opened.  If another process has filled it meanwhile, the two
\* texts overlay each other; if another process has renamed it meanwhile,
\* the bytes land in the registry file, as long as it is still that file.
FileFill(i) ==
  /\ instLive[i]
  /\ instOp[i].pc = "fill"
  /\ \/ /\ tmpState = "partial"
        /\ tmpState' = "complete"
        /\ tmpFile' = instOp[i].local
        /\ UNCHANGED <<registryState, registryFile>>
     \/ /\ tmpState = "complete"
        /\ \/ tmpState' = "complete" /\ tmpFile' = instOp[i].local
           \/ /\ tmpFile # instOp[i].local
              /\ tmpState' = "partial"
              /\ tmpFile' = EmptyRegistry
        /\ UNCHANGED <<registryState, registryFile>>
     \/ /\ tmpState = "absent"
        /\ IF registryState = "partial"
           THEN registryState' = "complete" /\ registryFile' = instOp[i].local
           ELSE UNCHANGED <<registryState, registryFile>>
        /\ UNCHANGED <<tmpState, tmpFile>>
  /\ instOp' = [instOp EXCEPT ![i].pc = "rename"]
  /\ regLast' = RegCall("fileFill", i, {}, registryFile' # registryFile)
  /\ UNCHANGED <<instLive, instCleanedUp, instManaged, instListed, instPending,
                 instDebounceTimer, instBurst>>
  /\ UNCHANGED <<focusVars, resizeVars, monLast, engineVars, restVars>>

\* renameSync(tmpPath, filePath); a missing temporary file makes it throw,
\* which _writeRegistry catches.
FileRename(i) ==
  /\ instLive[i]
  /\ instOp[i].pc = "rename"
  /\ IF tmpState = "absent"
     THEN UNCHANGED <<registryState, registryFile, tmpState, tmpFile>>
     ELSE /\ registryState' = tmpState
          /\ registryFile' = tmpFile
          /\ tmpState' = "absent"
          /\ tmpFile' = EmptyRegistry
  /\ instOp' = [instOp EXCEPT ![i] = NoOp]
  /\ regLast' = RegCall("fileRename", i, {}, tmpState # "absent")
  /\ UNCHANGED <<instLive, instCleanedUp, instManaged, instListed, instPending,
                 instDebounceTimer, instBurst>>
  /\ UNCHANGED <<focusVars, resizeVars, monLast, engineVars, restVars>>

\* unregister with no entry left: existsSync, unlinkSync.
FileUnlink(i) ==
  /\ instLive[i]
  /\ instOp[i].pc = "unlink"
  /\ registryState' = "absent"
  /\ registryFile' = EmptyRegistry
  /\ instOp' = [instOp EXCEPT ![i] = NoOp]
  /\ regLast' = RegCall("fileUnlink", i, {}, registryState # "absent")
  /\ UNCHANGED <<instLive, instCleanedUp, instManaged, instListed, instPending,
                 instDebounceTimer, instBurst, tmpState, tmpFile>>
  /\ UNCHANGED <<focusVars, resizeVars, monLast, engineVars, restVars>>

\* The process ends, at any point of an operation.
FileDie(i) ==
  /\ instLive[i]
  /\ instLive' = [instLive EXCEPT ![i] = FALSE]
  /\ instOp' = [instOp EXCEPT ![i] = NoOp]
  /\ regLast' = RegCall("fileDie", i, {}, FALSE)
  /\ UNCHANGED <<instCleanedUp, instManaged, instListed, instPending,
                 instDebounceTimer, instBurst, registryState, registryFile,
                 tmpState, tmpFile>>
  /\ UNCHANGED <<focusVars, resizeVars, monLast, engineVars, restVars>>

\* ---------------------------------------------------------------------
\* The registry operations on a file that is missing, damaged or cannot be
\* written.  registryFile holds the well-formed entries of the file; in state
\* "nullEntry" the file has one more key whose value is null.
\* ---------------------------------------------------------------------

\* The texts of a registry file that is damaged from outside: not JSON; JSON
\* without an `instances` object; { "instances": null }; an entry that is null.
DamagedStates == {"partial", "wrongShape", "nullInstances", "nullEntry"}

\* _readRegistry: typeof data.instances !== 'object' rejects every malformed
\* text but { "instances": null }, and entries are not looked at.
ReadInstances(state, file) ==
  CASE state = "complete" -> [isNull |-> FALSE, entries |-> file, nullEntry |-> FALSE]
    [] state = "nullEntry" -> [isNull |-> FALSE, entries |-> file, nullEntry |-> TRUE]
    [] state = "nullInstances" ->
         [isNull |-> TRUE, entries |-> EmptyRegistry, nullEntry |-> FALSE]
    [] OTHER -> [isNull |-> FALSE, entries |-> EmptyRegistry, nullEntry |-> FALSE]

\* _writeRegistry: nothing changes when the temporary file cannot be written.
WriteRegistry(state, registry) ==
  IF tmpState = "unwritable"
  THEN UNCHANGED <<registryState, registryFile>>
  ELSE registryState' = state /\ registryFile' = registry

\* init(): _register reads, prunes with entry.pid for every entry, which
\* throws on a null entry, adds its own entry and writes.
IoInit(i) ==
  /\ ~instLive[i]
  /\ instLive' = [instLive EXCEPT ![i] = TRUE]
  /\ instCleanedUp' = [instCleanedUp EXCEPT ![i] = FALSE]
  /\ \E r \in {ReadInstances(registryState, registryFile)} :
       IF r.nullEntry
       THEN /\ UNCHANGED <<registryState, registryFile>>
            /\ regLast' = RegThrew("register", i)
       ELSE /\ WriteRegistry("complete", Registered(i, r.entries))
            /\ regLast' = RegCall("register", i, {}, tmpState # "unwritable")
  /\ UNCHANGED <<instManaged, instListed, instPending, instDebounceTimer,
                 instBurst, instOp, tmpState, tmpFile>>
  /\ UNCHANGED <<focusVars, resizeVars, monLast, engineVars, restVars>>

\* _readRegistry when existsSync or readFileSync throws although the file is
\* intact (it is locked or access is denied for a moment): the catch returns
\* { instances: {} }.
UnreadRegistry == EmptyRegistry

\* init() while the file cannot be read: _register prunes and extends the
\* empty registry and writes it.
IoInitUnreadable(i) ==
  /\ ~instLive[i]
  /\ registryState # "absent"
  /\ instLive' = [instLive EXCEPT ![i] = TRUE]
  /\ instCleanedUp' = [instCleanedUp EXCEPT ![i] = FALSE]
  /\ WriteRegistry("complete", Registered(i, UnreadRegistry))
  /\ regLast' = RegCall("registerUnread", i, {}, tmpState # "unwritable")
  /\ UNCHANGED <<instManaged, instListed, instPending, instDebounceTimer,
                 instBurst, instOp, tmpState, tmpFile>>
  /\ UNCHANGED <<focusVars, resizeVars, monLast, engineVars, restVars>>

\* getOtherInstancesHwnds while the file cannot be read: the pruned empty
\* registry is written back and the empty set is returned.
IoGetOthersUnreadable(i) ==
  /\ instLive[i]
  /\ registryState # "absent"
  /\ WriteRegistry("complete", PruneDeadInstances(UnreadRegistry))
  /\ regLast' = RegCall("getOthersUnread", i,
       OtherInstancesHwnds(i, PruneDeadInstances(UnreadRegistry)),
       tmpState # "unwritable")
  /\ UNCHANGED <<instLive, instCleanedUp, instManaged, instListed, instPending,
                 instDebounceTimer, instBurst, instOp, tmpState, tmpFile>>
  /\ UNCHANGED <<focusVars, resizeVars, monLast, engineVars, restVars>>

\* The debounce timer's callback: _flushManagedHwnds, all inside try/catch.
IoFlush(i, hwnds) ==
  /\ instLive[i]
  /\ \E r \in {ReadInstances(registryState, registryFile)} :
       IF ~r.isNull /\ i \in DOMAIN r.entries
       THEN /\ WriteRegistry(registryState, [r.entries EXCEPT ![i] = hwnds])
            /\ regLast' = RegCall("flush", i, hwnds, tmpState # "unwritable")
       ELSE /\ UNCHANGED <<registryState, registryFile>>
            /\ regLast' = RegCall("flush", i, hwnds, FALSE)
  /\ UNCHANGED <<instLive, instCleanedUp, instManaged, instListed, instPending,
                 instDebounceTimer, instBurst, instOp, tmpState, tmpFile>>
  /\ UNCHANGED <<focusVars, resizeVars, monLast, engineVars, restVars>>

\* getOtherInstancesHwnds, all inside try/catch: a null entry makes the
\* pruning throw, and the empty set is returned.
IoGetOthers(i) ==
  /\ instLive[i]
  /\ \E r \in {ReadInstances(registryState, registryFile)} :
       IF r.nullEntry
       THEN /\ UNCHANGED <<registryState, registryFile>>
            /\ regLast' = RegCall("getOthers", i, {}, FALSE)
       ELSE /\ WriteRegistry("complete", PruneDeadInstances(r.entries))
            /\ regLast' = RegCall("getOthers", i,
                 OtherInstancesHwnds(i, PruneDeadInstances(r.entries)),
                 tmpState # "unwritable")
  /\ UNCHANGED <<instLive, instCleanedUp, instManaged, instListed, instPending,
                 instDebounceTimer, instBurst, instOp, tmpState, tmpFile>>
  /\ UNCHANGED <<focusVars, resizeVars, monLast, engineVars, restVars>>

\* unregister, all inside try/catch, and the end of the process.
IoUnregister(i) ==
  /\ instLive[i]
  /\ instLive' = [instLive EXCEPT ![i] = FALSE]
  /\ \E r \in {ReadInstances(registryState, registryFile)} :
       IF r.isNull
       THEN UNCHANGED <<registryState, registryFile>>
       ELSE IF DOMAIN Unregistered(i, r.entries) = {} /\ ~r.nullEntry
            THEN IF tmpState = "unwritable"
                 THEN UNCHANGED <<registryState, registryFile>>
                 ELSE registryState' = "absent" /\ registryFile' = EmptyRegistry
            ELSE WriteRegistry(IF r.nullEntry THEN "nullEntry" ELSE "complete",
                               Unregistered(i, r.entries))
  /\ regLast' = RegCall("unregister", i, {}, registryFile' # registryFile)
  /\ UNCHANGED <<instCleanedUp, instManaged, instListed, instPending,
                 instDebounceTimer, instBurst, instOp, tmpState, tmpFile>>
  /\ UNCHANGED <<focusVars, resizeVars, monLast, engineVars, restVars>>

\* Something outside the program replaces or deletes the registry file.
IoDamage(state) ==
  /\ registryState # state
  /\ registryState' = state
  /\ registryFile' = IF state = "nullEntry" THEN registryFile ELSE EmptyRegistry
  /\ regLast' = RegCall("damage", 0, {}, FALSE)
  /\ UNCHANGED <<instLive, instCleanedUp, instManaged, instListed, instPending,
                 instDebounceTimer, instBurst, instOp, tmpState, tmpFile>>
  /\ UNCHANGED <<focusVars, resizeVars, monLast, engineVars, restVars>>

\* The directory becomes read-only, or writable again.
IoProtect ==
  /\ tmpState' = IF tmpState = "unwritable" THEN "absent" ELSE "unwritable"
  /\ regLast' = RegCall("protect", 0, {}, FALSE)
  /\ UNCHANGED <<instLive, instCleanedUp, instManaged, instListed, instPending,
                 instDebounceTimer, instBurst, instOp, registryState,
                 registryFile, tmpFile>>
  /\ UNCHANGED <<focusVars, resizeVars, monLast, engineVars, restVars>>

\* No instance is running and there is no registry file.
RegistryIdle ==
  /\ instLive = [i \in Instances |-> FALSE]
  /\ instCleanedUp = [i \in Instances |-> FALSE]
  /\ instManaged = [i \in Instances |-> {}]
  /\ instListed = [i \in Instances |-> {}]
  /\ instPending = [i \in Instances |-> {}]
  /\ instDebounceTimer = [i \in Instances |-> {}]
  /\ instBurst = [i \in Instances |-> NoBurst]
  /\ instOp = [i \in Instances |-> NoOp]
  /\ registryState = "absent"
  /\ registryFile = EmptyRegistry
  /\ tmpState = "absent"
  /\ tmpFile = EmptyRegistry
  /\ regLast = RegCall("init", 0, {}, FALSE)

FocusIdle ==
  /\ fgWindow = 0
  /\ fmTimer = 0
  /\ fmIntervals = {}
  /\ fmLastForeground = 0
  /\ fmManaged = {}
  /\ fmOnFocusChange = FALSE
  /\ fmArrivals = 0
  /\ fmReports = 0
  /\ focusChanges = 0

\* The resize monitor as its constructor leaves it.
ResizeIdle ==
  /\ rmHook = 0
  /\ rmHooks = {}
  /\ rmCallback = 0
  /\ rmCallbacks = {}
  /\ rmManaged = {}
  /\ rmOnResizeEnd = FALSE

\* The defaults of the WindowManager constructor.
DefaultStackName == "Managed Stack"

DefaultBackgroundColor == "#000000"

\* An engine as getState and loadState see it, before any window is added.
FreshEngine ==
  [windows |-> <<>>, activeHwnd |-> NoHandle, stackName |-> DefaultStackName,
   hideAvailable |-> FALSE, backgroundColor |-> DefaultBackgroundColor,
   customWidth |-> Null, customHeight |-> Null]

\* No state was loaded yet.
NotLoaded == [done |-> FALSE, present |-> TRUE, engine |-> FreshEngine]

\* main.js has armed no timer, Persistence is as constructed and initialised
\* with no file yet, the engine has its default settings.
NoCleanup ==
  [events |-> 0, event |-> "none", saveSync |-> 0, restoreAll |-> 0,
   cleanupFile |-> 0, unregister |-> 0]

RestIdle ==
  /\ appTimers = {}
  /\ cleanupRuns = NoCleanup
  /\ persistWriting = FALSE
  /\ persistPending = {}
  /\ persistInFlight = <<>>
  /\ persistFile = {}
  /\ persistSaved = <<>>
  /\ stackName = DefaultStackName
  /\ hideAvailable = FALSE
  /\ backgroundColor = DefaultBackgroundColor
  /\ rtSource = FreshEngine
  /\ rtLoaded = NotLoaded

\* ------------------------------------------------------------ persistence

\* The number of Persistence.save calls of a run.
MaxSaves == 3

\* getState(): the settings and, for each entry in order, hwnd, customTitle
\* (w.customTitle || null) and originalRect.
GetState(mw, sn, hide, bg, cw, ch) ==
  [stackName |-> sn, hideAvailable |-> hide, backgroundColor |-> bg,
   customWidth |-> cw, customHeight |-> ch,
   windows |-> [i \in 1 .. Len(mw) |->
                  [hwnd |-> mw[i].hwnd, customTitle |-> mw[i].customTitle,
                   originalRect |-> mw[i].originalRect]]]

\* x || null for a dimension: 0 and null both give null.
DimOrNull(x) == IF x = 0 THEN Null ELSE x

\* save / saveSync: the data object written for a state.
PersistData(state) ==
  [stackName |-> IF state.stackName = "" THEN DefaultStackName ELSE state.stackName,
   hideAvailable |-> state.hideAvailable,
   customWidth |-> DimOrNull(state.customWidth),
   customHeight |-> DimOrNull(state.customHeight),
   backgroundColor |-> IF state.backgroundColor = "" THEN DefaultBackgroundColor
                       ELSE state.backgroundColor,
   windows |-> state.windows]

\* The states save is called with: getState() of an engine with or without a
\* custom width, under either of two names.
SaveStates ==
  {GetState(<<>>, sn, FALSE, DefaultBackgroundColor, cw, Null) :
     sn \in {DefaultStackName, "Work"}, cw \in {Null, MinCustomDimension}}

\* A finally block that forgets the queued state.
DropPending(pending) ==
  [writing |-> FALSE, pending |-> {}, inFlight |-> <<>>]

\* save's finally block: _writing = false, then save(pending) for a queued
\* state, which runs up to its writeFile at once.
FlushPending(pending) ==
  IF pending = {}
  THEN [writing |-> FALSE, pending |-> {}, inFlight |-> <<>>]
  ELSE [writing |-> TRUE, pending |-> {},
        inFlight |-> <<PersistData(CHOOSE s \in pending : TRUE)>>]

\* save(state), up to its await: queued while a write is in flight,
\* otherwise written.
SaveCall(state) ==
  /\ Len(persistSaved) < MaxSaves
  /\ persistSaved' = Append(persistSaved, state)
  /\ IF persistWriting
     THEN /\ persistPending' = {state}
          /\ UNCHANGED <<persistWriting, persistInFlight>>
     ELSE /\ persistWriting' = TRUE
          /\ persistInFlight' = Append(persistInFlight, PersistData(state))
          /\ UNCHANGED persistPending
  /\ UNCHANGED persistFile

Save(state) ==
  /\ SaveCall(state)
  /\ UNCHANGED <<engineVars, focusVars, resizeVars, registryVars, monLast, appVars,
                 settingsVars, roundTripVars>>

\* The k-th writeFile in flight settles: the file holds its data, and the
\* rest of that save call runs (the finally block).
WriteSettles(k) ==
  /\ k \in 1 .. Len(persistInFlight)
  /\ persistFile' = {persistInFlight[k]}
  /\ \E r \in {FlushPending(persistPending)} :
       /\ persistWriting' = r.writing
       /\ persistPending' = r.pending
       /\ persistInFlight' =
            [j \in 1 .. Len(persistInFlight) - 1 |->
               IF j < k THEN persistInFlight[j] ELSE persistInFlight[j + 1]]
            \o r.inFlight
  /\ UNCHANGED persistSaved

WriteDone(k) ==
  /\ WriteSettles(k)
  /\ UNCHANGED <<engineVars, focusVars, resizeVars, registryVars, monLast, appVars,
                 settingsVars, roundTripVars>>

\* --------------------------------------------------- settings, round trip

\* Arguments of setStackName: nothing, a name.
StackNames == {"", "Work"}

\* Arguments of setBackgroundColor: a colour, a text that is no #rrggbb.
ColorArgs == {"#112233", "red"}

\* /^#[0-9a-fA-F]{6}$/.test(color), on the arguments above and the default.
IsHexColor(color) == color \in {DefaultBackgroundColor, "#112233"}

SettingsFrame ==
  UNCHANGED <<engineVars, focusVars, resizeVars, registryVars, monLast, appVars,
              persistVars, roundTripVars>>

\* setStackName(name): name || 'Managed Stack'
SetStackName(name) ==
  /\ stackName' = IF name = "" THEN DefaultStackName ELSE name
  /\ UNCHANGED <<hideAvailable, backgroundColor>>
  /\ SettingsFrame

\* setHideAvailable(hide): !!hide
SetHideAvailable(hide) ==
  /\ hideAvailable' = hide
  /\ UNCHANGED <<stackName, backgroundColor>>
  /\ SettingsFrame

\* setBackgroundColor(color): kept only when it is a #rrggbb string
SetBackgroundColor(color) ==
  /\ backgroundColor' = IF IsHexColor(color) THEN color ELSE backgroundColor
  /\ UNCHANGED <<stackName, hideAvailable>>
  /\ SettingsFrame

\* The engine as getState and loadState see it.
EngineNow ==
  [windows |-> managedWindows, activeHwnd |-> activeHwnd, stackName |-> stackName,
   hideAvailable |-> hideAvailable, backgroundColor |-> backgroundColor,
   customWidth |-> customWidth, customHeight |-> customHeight]

\* unshift instead of push: a loaded entry goes to the front.
UnshiftEntry(entry, mw) == <<entry>> \o mw

\* this.managedWindows.push({...})
PushEntry(entry, mw) == Append(mw, entry)

\* loadState's loop: each saved window that exists and is visible (after
\* ShowWindow(SW_RESTORE) for a hidden one) is pushed; `hidden` are the
\* windows that stay invisible.
RECURSIVE LoadWindows(_, _, _)
LoadWindows(saved, mw, hidden) ==
  IF saved = <<>> THEN mw
  ELSE LET w == Head(saved) IN
       IF ~IsWindow(w.hwnd) \/ w.hwnd \in hidden
       THEN LoadWindows(Tail(saved), mw, hidden)
       ELSE LoadWindows(Tail(saved),
                        \* originalRect is an object in every entry of
                        \* addWindow, so `|| {100, 100, 900, 700}` keeps it
                        PushEntry([hwnd |-> w.hwnd, customTitle |-> w.customTitle,
                                   originalRect |-> w.originalRect], mw),
                        hidden)

\* The clamp of loadState: Math.max(200, Number(x)), null for null.
LoadedDim(x) == IF x # Null THEN Max(MinCustomDimension, x) ELSE Null

\* loadState(saved) on `engine`.
LoadState(engine, saved, hidden) ==
  LET loaded == LoadWindows(saved.windows, engine.windows, hidden) IN
  [windows |-> loaded,
   activeHwnd |-> IF Len(loaded) > 0 THEN loaded[1].hwnd ELSE engine.activeHwnd,
   stackName |-> IF saved.stackName # "" THEN saved.stackName ELSE engine.stackName,
   hideAvailable |-> saved.hideAvailable,
   backgroundColor |-> IF saved.backgroundColor # "" THEN saved.backgroundColor
                       ELSE engine.backgroundColor,
   customWidth |-> LoadedDim(saved.customWidth),
   customHeight |-> LoadedDim(saved.customHeight)]

\* getState() of the engine, then loadState of the result on a new
\* WindowManager, while the windows in `hidden` cannot be shown.
LoadRoundTrip(hidden) ==
  /\ rtSource' = EngineNow
  /\ rtLoaded' =
       [done |-> TRUE,
        present |-> \A h \in ManagedHwnds(managedWindows) : IsWindow(h) /\ h \notin hidden,
        engine |-> LoadState(FreshEngine,
                             GetState(managedWindows, stackName, hideAvailable,
                                      backgroundColor, customWidth, customHeight),
                             hidden)]
  /\ UNCHANGED <<engineVars, focusVars, resizeVars, registryVars, monLast, appVars,
                 persistVars, settingsVars>>

\* ----------------------------------------------- the main process, shutdown

\* What doLayout passes: the panel is 300 wide at the left of a 1920 x 1080
\* work area.
PanelBounds ==
  [x |-> 0, y |-> 0, width |-> 300, height |-> 1080, displayRightEdge |-> 1920]

\* The instance whose main process is followed from start to exit.
App == 1

\* setInterval timers of main.js: the dead-window sweep, the auto-save.
IntervalTimers == {"cleanupTimer", "saveTimer"}

\* setTimeout timers of main.js.
DebounceTimers == {"_layoutDebounceTimer", "_saveDebounceTimer", "_focusDebounceTimer"}

\* The windows the user adds to the stack of this process.
AppHandles == {1}

\* The number of asynchronous saves of the process that is followed.
MaxAppSaves == 1

\* Between whenReady and performCleanup.
Running == instLive[App] /\ ~instCleanedUp[App]

\* windowManager.getState()
StateNow ==
  GetState(managedWindows, stackName, hideAvailable, backgroundColor, customWidth,
           customHeight)

\* app.whenReady: the instance registers, the engine and Persistence are
\* constructed, both monitors are started and given the (empty) managed set,
\* and the sweep and auto-save intervals are armed.
AppReady ==
  /\ ~instLive[App]
  /\ ~instCleanedUp[App]
  /\ instLive' = [instLive EXCEPT ![App] = TRUE]
  /\ instBurst' = [instBurst EXCEPT ![App] = NoBurst]
  /\ registryState' = "complete"
  /\ registryFile' = Registered(App, ReadRegistry(registryState, registryFile))
  /\ regLast' = RegCall("register", App, {}, TRUE)
  /\ UNCHANGED <<instCleanedUp, instManaged, instListed, instPending,
                 instDebounceTimer, instOp, tmpState, tmpFile>>
  /\ fmOnFocusChange' = TRUE
  /\ fmLastForeground' = fgWindow
  /\ fmTimer' = FreshId(fmIntervals)
  /\ fmIntervals' = fmIntervals \cup {FreshId(fmIntervals)}
  /\ fmArrivals' = 0
  /\ fmReports' = 0
  /\ fmManaged' = ManagedHwnds(managedWindows)
  /\ UNCHANGED <<fgWindow, focusChanges>>
  /\ rmOnResizeEnd' = TRUE
  /\ rmCallback' = FreshId(rmHooks \cup rmCallbacks)
  /\ rmCallbacks' = rmCallbacks \cup {FreshId(rmHooks \cup rmCallbacks)}
  /\ rmHook' = FreshId(rmHooks \cup rmCallbacks)
  /\ rmHooks' = rmHooks \cup {FreshId(rmHooks \cup rmCallbacks)}
  /\ rmManaged' = ManagedHwnds(managedWindows)
  /\ UNCHANGED rmSkipOwn
  /\ monLast' = MonCall("resizeUpdate", 0, 0)
  /\ appTimers' = IntervalTimers
  /\ UNCHANGED cleanupRuns
  /\ UNCHANGED <<engineVars, persistVars, settingsVars, roundTripVars>>

\* doLayoutDebounced, debouncedSave, mainWindow.on('focus'): clearTimeout of
\* the timer's predecessor, then setTimeout.
Debounce(t) ==
  /\ Running
  /\ appTimers' = appTimers \cup {t}
  /\ UNCHANGED cleanupRuns
  /\ UNCHANGED <<engineVars, focusVars, resizeVars, registryVars, monLast,
                 persistVars, settingsVars, roundTripVars>>

\* instanceRegistry.updateManagedHwnds(windowManager.getManagedHwnds())
RegistryUpdate ==
  /\ Running
  /\ UpdateManagedHwnds(App, ManagedHwnds(managedWindows))
  /\ regLast' = RegCall("update", App, ManagedHwnds(managedWindows), FALSE)
  /\ UNCHANGED <<instLive, instCleanedUp, instManaged, instListed, instOp,
                 registryState, registryFile, tmpState, tmpFile>>
  /\ UNCHANGED <<focusVars, resizeVars, monLast, engineVars, restVars>>

\* The layout debounce timer fires: doLayout().
LayoutDebounceFires ==
  /\ instLive[App]
  /\ "_layoutDebounceTimer" \in appTimers
  /\ appTimers' = appTimers \ {"_layoutDebounceTimer"}
  /\ UNCHANGED cleanupRuns
  /\ LayoutStackCall(PanelBounds)
  /\ UNCHANGED <<focusVars, resizeVars, registryVars, monLast, persistVars,
                 settingsVars, roundTripVars>>

\* The save debounce timer fires: persistence.save(windowManager.getState()).
SaveDebounceFires ==
  /\ instLive[App]
  /\ "_saveDebounceTimer" \in appTimers
  /\ appTimers' = appTimers \ {"_saveDebounceTimer"}
  /\ UNCHANGED cleanupRuns
  /\ SaveCall(StateNow)
  /\ UNCHANGED <<engineVars, focusVars, resizeVars, registryVars, monLast,
                 settingsVars, roundTripVars>>

\* The focus debounce timer fires: SetForegroundWindow(activeHwnd).
FocusDebounceFires ==
  /\ instLive[App]
  /\ "_focusDebounceTimer" \in appTimers
  /\ appTimers' = appTimers \ {"_focusDebounceTimer"}
  /\ UNCHANGED cleanupRuns
  /\ PanelFocusCall
  /\ UNCHANGED <<focusVars, resizeVars, registryVars, monLast, persistVars,
                 settingsVars, roundTripVars>>

\* A syncMonitors that reads the managed handles before the engine call.
StaleMonitorSet(mw) == ManagedHwnds(managedWindows)

\* syncMonitors: windowManager.getManagedHwnds(), the set both monitors get.
MonitorSetAfterSync(mw) == ManagedHwnds(mw)

\* syncMonitors(): updateManagedSet of the focus and of the resize monitor.
SyncMonitors(hwnds) ==
  /\ fmManaged' = hwnds
  /\ fmArrivals' = 0
  /\ fmReports' = 0
  /\ UNCHANGED <<fgWindow, fmTimer, fmIntervals, fmLastForeground, fmOnFocusChange,
                 focusChanges>>
  /\ rmManaged' = hwnds
  /\ UNCHANGED <<rmHook, rmHooks, rmCallback, rmCallbacks, rmOnResizeEnd, rmSkipOwn>>
  /\ monLast' = MonCall("resizeUpdate", 0, 0)

\* instanceRegistry.updateManagedHwnds(hwnds) inside a handler of main.js.
RegistryUpdateCall(hwnds) ==
  /\ UpdateManagedHwnds(App, hwnds)
  /\ regLast' = RegCall("update", App, hwnds, FALSE)
  /\ UNCHANGED <<instLive, instCleanedUp, instManaged, instListed, instOp,
                 registryState, registryFile, tmpState, tmpFile>>

\* The sweep interval's callback when removeDeadWindows() returns true:
\* syncMonitors, doLayoutDebounced, persistence.save(getState()),
\* updateManagedHwnds(getManagedHwnds()).
SweepChanged ==
  \E alive \in {FilterAlive(managedWindows)} :
  /\ managedWindows' = alive
  /\ activeHwnd' = ActiveAfterSweep(managedWindows, activeHwnd, alive)
  /\ last' = Call("removeDeadWindows", NoHandle, TRUE, NoCalls)
  /\ UNCHANGED <<osVars, dimVars, skipAnimation, restoreTimers, animVars>>
  /\ Budget
  /\ SyncMonitors(MonitorSetAfterSync(alive))
  /\ appTimers' = appTimers \cup {"_layoutDebounceTimer"}
  /\ UNCHANGED cleanupRuns
  /\ SaveCall(GetState(alive, stackName, hideAvailable, backgroundColor,
                       customWidth, customHeight))
  /\ RegistryUpdateCall(ManagedHwnds(alive))
  /\ UNCHANGED <<settingsVars, roundTripVars>>

\* The sweep interval fires: removeDeadWindows(); when it returns false the
\* callback ends.
SweepFires ==
  /\ instLive[App]
  /\ "cleanupTimer" \in appTimers
  /\ IF FilterAlive(managedWindows) = managedWindows
     THEN RemoveDeadWindows
     ELSE SweepChanged

\* ipcMain 'add-window' for a window that is not minimized: addWindow,
\* syncMonitors, doLayout, persistence.save, updateManagedHwnds.
AddWindowHandler(h) ==
  /\ Running
  /\ ~IsIconic(h)
  /\ \E mw \in {IF AddWindowIsNoOp(managedWindows, h) THEN managedWindows
                ELSE InsertFront(NewEntry(h), managedWindows)},
        active \in {IF AddWindowIsNoOp(managedWindows, h) THEN activeHwnd ELSE h} :
       /\ managedWindows' = mw
       /\ activeHwnd' = active
       /\ \E targets \in {LayoutTargets(mw, active, customWidth, customHeight,
                                        PanelBounds)} :
            LET calls == [NoCalls EXCEPT !.targets = targets, !.sb = PanelBounds,
                            !.fg = IF AddWindowIsNoOp(managedWindows, h)
                                   THEN {} ELSE {h}]
            IN IF targets = <<>>
               THEN /\ UNCHANGED <<osVars, animVars>>
                    /\ last' = Call("layoutStack", NoHandle, FALSE, calls)
               ELSE AnimateLayout(targets, calls)
       /\ SyncMonitors(MonitorSetAfterSync(mw))
       /\ SaveCall(GetState(mw, stackName, hideAvailable, backgroundColor,
                            customWidth, customHeight))
       /\ RegistryUpdateCall(ManagedHwnds(mw))
  /\ UNCHANGED <<dimVars, skipAnimation, restoreTimers>>
  /\ UNCHANGED <<appVars, settingsVars, roundTripVars>>
  /\ Budget

\* The auto-save interval fires: save when a window is managed.
AutoSaveFires ==
  /\ instLive[App]
  /\ "saveTimer" \in appTimers
  /\ IF Len(managedWindows) > 0 THEN SaveCall(StateNow) ELSE UNCHANGED persistVars
  /\ UNCHANGED <<engineVars, focusVars, resizeVars, registryVars, monLast, appVars,
                 settingsVars, roundTripVars>>

\* app.on('window-all-closed') and app.on('before-quit'): both call
\* performCleanup.
QuitEventKinds == {"window-all-closed", "before-quit"}

\* The quit events delivered to one process.
MaxQuitEvents == 3

\* A performCleanup without its guard.
NoCleanupGuard(cleaned) == FALSE

\* if (_cleanedUp) return;
CleanupGuard(cleaned) == cleaned

\* performCleanup past its guard: both monitors are stopped, the five timers
\* of main.js are cleared, the state is written by saveSync, restoreAll snaps
\* and clears the stack (cancelling the restore animations only), cleanupFile
\* deletes the instance's persistence file, and unregister cancels the
\* registry debounce and removes the entry.
CleanupBody(e) ==
  /\ instCleanedUp' = [instCleanedUp EXCEPT ![App] = TRUE]
  /\ cleanupRuns' = [events |-> cleanupRuns.events + 1, event |-> e,
                     saveSync |-> cleanupRuns.saveSync + 1,
                     restoreAll |-> cleanupRuns.restoreAll + 1,
                     cleanupFile |-> cleanupRuns.cleanupFile + 1,
                     unregister |-> cleanupRuns.unregister + 1]
  \* foregroundMonitor.stop()
  /\ IF fmTimer # 0
     THEN fmIntervals' = fmIntervals \ {fmTimer} /\ fmTimer' = 0
     ELSE UNCHANGED <<fmIntervals, fmTimer>>
  /\ fmArrivals' = 0
  /\ fmReports' = 0
  /\ UNCHANGED <<fgWindow, fmLastForeground, fmManaged, fmOnFocusChange, focusChanges>>
  \* resizeMonitor.stop()
  /\ IF rmHook # 0
     THEN rmHooks' = rmHooks \ {rmHook} /\ rmHook' = 0
     ELSE UNCHANGED <<rmHooks, rmHook>>
  /\ IF rmCallback # 0
     THEN rmCallbacks' = rmCallbacks \ {rmCallback} /\ rmCallback' = 0
     ELSE UNCHANGED <<rmCallbacks, rmCallback>>
  /\ UNCHANGED <<rmManaged, rmOnResizeEnd, rmSkipOwn>>
  /\ monLast' = MonCall("resizeStop", 0, 0)
  \* clearInterval / clearTimeout
  /\ appTimers' = appTimers \ (IntervalTimers \cup DebounceTimers)
  \* saveSync writes the file, cleanupFile unlinks it
  /\ persistFile' = {}
  /\ UNCHANGED <<persistWriting, persistPending, persistInFlight, persistSaved>>
  \* restoreAll
  /\ \E reqs \in {RestoreRequests(managedWindows)} :
       /\ winRect' = SetWindowPosFrom(winRect, reqs, 1)
       /\ last' = Call("restoreAll", NoHandle, FALSE,
                       [NoCalls EXCEPT !.pos = {PosCall(reqs[i]) : i \in 1 .. Len(reqs)}])
  /\ restoreTimers' = StopAllRestoreAnimations(restoreTimers)
  /\ managedWindows' = <<>>
  /\ activeHwnd' = NoHandle
  /\ UNCHANGED <<isWindow, isIconic, dimVars, skipAnimation, animVars, steps>>
  \* unregister
  /\ instManaged' = [instManaged EXCEPT ![App] = {}]
  /\ instPending' = [instPending EXCEPT ![App] = @ \ instDebounceTimer[App]]
  /\ instDebounceTimer' = [instDebounceTimer EXCEPT ![App] = {}]
  /\ \E rest \in {Unregistered(App, ReadRegistry(registryState, registryFile))} :
       IF DOMAIN rest = {}
       THEN /\ registryState' = "absent"
            /\ registryFile' = EmptyRegistry
       ELSE /\ registryState' = "complete"
            /\ registryFile' = rest
  /\ regLast' = RegCall("unregister", App, {}, TRUE)
  /\ UNCHANGED <<instLive, instListed, instBurst, instOp, tmpState, tmpFile>>
  /\ UNCHANGED <<settingsVars, roundTripVars>>

\* A quit event e reaches the process: performCleanup returns at its guard
\* when it has run before.
PerformCleanup(e) ==
  /\ instLive[App]
  /\ cleanupRuns.events < MaxQuitEvents
  /\ IF CleanupGuard(instCleanedUp[App])
     THEN /\ cleanupRuns' = [cleanupRuns EXCEPT !.events = @ + 1, !.event = e]
          /\ UNCHANGED <<engineVars, focusVars, resizeVars, registryVars, monLast,
                         appTimers, persistVars, settingsVars, roundTripVars>>
     ELSE CleanupBody(e)

\* Before the monitors are started.
HostIdle ==
  /\ FocusIdle
  /\ ResizeIdle
  /\ RegistryIdle
  /\ RestIdle
  /\ rmSkipOwn = FALSE
  /\ monLast = MonCall("init", 0, 0)

\* ----------------------------------------------------------- specification

\* The engine as main.js constructs it (new WindowManager(): animations on,
\* no custom dimensions), driven by arbitrary calls while windows are
\* minimized and destroyed underneath it.
Init ==
  /\ isWindow = [h \in Handles |-> TRUE]
  /\ isIconic = [h \in Handles |-> FALSE]
  /\ winRect = [h \in Handles |-> InitialRect(h)]
  /\ managedWindows = <<>>
  /\ activeHwnd = NoHandle
  /\ customWidth = Null
  /\ customHeight = Null
  /\ skipAnimation = FALSE
  /\ restoreTimers = {}
  /\ animTimer = FALSE
  /\ currentTargets = <<>>
  /\ animLayouts = <<>>
  /\ animTicks = {}
  /\ last = Call("init", NoHandle, FALSE, NoCalls)
  /\ steps = 0
  /\ HostIdle

Next ==
  \/ \E h \in HandleArgs : AddWindow(h)
  \/ \E h \in HandleArgs : RemoveWindow(h)
  \/ \E h \in HandleArgs, force \in BOOLEAN : PromoteToActive(h, force)
  \/ RemoveDeadWindows
  \/ RestoreAll
  \/ \E h \in HandleArgs, t \in Titles : RenameWindow(h, t)
  \/ LayoutStack(PanelBounds)
  \/ PanelFocus
  \/ \E k \in 0 .. AnimSteps : AnimTick(k)
  \/ \E t \in restoreTimers, k \in 0 .. AnimSteps : RestoreTick(t, k)
  \/ \E h \in Handles : OsClose(h)
  \/ \E h \in Handles : OsMinimize(h)

Spec == Init /\ [][Next]_vars

\* ------------------------------------ specification of removal and restore

\* addWindow for a window that stands where it was created and has no restore
\* animation running: a removed window is added again only once it has come
\* to rest there, so that every entry's originalRect is InitialRect.
AddRestedWindow(h) ==
  /\ winRect[h] = InitialRect(h)
  /\ \A t \in restoreTimers : t.hwnd # h
  /\ AddWindow(h)

\* Windows that stay valid are added, laid out and removed while the layout
\* and restore animations tick in any order.
NextRestore ==
  \/ \E h \in Handles : AddRestedWindow(h)
  \/ \E h \in Handles : RemoveWindow(h)
  \/ LayoutStack(PanelBounds)
  \/ \E k \in 0 .. AnimSteps : AnimTick(k)
  \/ \E t \in restoreTimers, k \in 0 .. AnimSteps : RestoreTick(t, k)

SpecRestore == Init /\ [][NextRestore]_vars

\* ---------------------------------------------- specification of the layout

\* Values of customWidth / customHeight: null, the floor, above any screen.
CustomDims == {Null, 100, 3000}

\* Arguments of layoutStack: the panel at the screen's left edge or 100 to
\* its right, panel widths that leave room or (1800 wide with the display
\* ending at 1920) less than the minimum, a tall and a short work area,
\* displayRightEdge given or not.
LayoutScreens ==
  {[x |-> x, y |-> y, width |-> w, height |-> h, displayRightEdge |-> d] :
     x \in {0, 100}, y \in {0, 30}, w \in {300, 1800}, h \in {1080, 120},
     d \in {1920, Null}}

\* The inputs of layoutStack: a stack of n windows 1..n (n at the front, as n
\* addWindow calls leave it) with any of them active, animations on or off.
InitLayout ==
  /\ \E n \in 1 .. MaxLayoutWindows :
       /\ managedWindows =
            [i \in 1 .. n |-> [hwnd |-> n + 1 - i, customTitle |-> "",
                               originalRect |-> InitialRect(n + 1 - i)]]
       /\ activeHwnd \in 1 .. n
  /\ isWindow = [h \in LayoutHandles |-> TRUE]
  /\ isIconic = [h \in LayoutHandles |-> FALSE]
  /\ winRect = [h \in LayoutHandles |-> InitialRect(h)]
  /\ customWidth = Null
  /\ customHeight = Null
  /\ skipAnimation \in BOOLEAN
  /\ restoreTimers = {}
  /\ animTimer = FALSE
  /\ currentTargets = <<>>
  /\ animLayouts = <<>>
  /\ animTicks = {}
  /\ last = Call("init", NoHandle, FALSE, NoCalls)
  /\ steps = 0
  /\ HostIdle

\* layoutStack as a function of its inputs: at most one setCustomDimensions
\* call, then one layoutStack call, then the ticks of its animation.
NextLayout ==
  \/ \E w \in CustomDims, h \in CustomDims :
       last.op = "init" /\ SetCustomDimensions(w, h)
  \/ \E sb \in LayoutScreens :
       last.op \in {"init", "setCustomDimensions"} /\ LayoutStack(sb)
  \/ \E k \in 0 .. AnimSteps : AnimTick(k)

SpecLayout == InitLayout /\ [][NextLayout]_vars

\* ------------------------------------- specification of the strip height

\* Work areas of three heights right of a 300 wide panel.
StripScreens ==
  {[x |-> 0, y |-> 0, width |-> 300, height |-> h, displayRightEdge |-> 1920] :
     h \in {1080, 600, 120}}

\* Custom heights: none, the floor of setCustomDimensions, 600.
StripCustomHeights == {Null, 200, 600}

\* The strip height as a function of the stack size and the height at hand:
\* stacks of 1..MaxStripWindows windows with the front or the back window
\* active.
InitStrip ==
  /\ \E n \in 1 .. MaxStripWindows :
       /\ managedWindows =
            [i \in 1 .. n |-> [hwnd |-> n + 1 - i, customTitle |-> "",
                               originalRect |-> InitialRect(n + 1 - i)]]
       /\ activeHwnd \in {1, n}
  /\ isWindow = [h \in StripHandles |-> TRUE]
  /\ isIconic = [h \in StripHandles |-> FALSE]
  /\ winRect = [h \in StripHandles |-> InitialRect(h)]
  /\ customWidth = Null
  /\ customHeight \in {ClampCustom(d) : d \in StripCustomHeights}
  /\ skipAnimation \in BOOLEAN
  /\ restoreTimers = {}
  /\ animTimer = FALSE
  /\ currentTargets = <<>>
  /\ animLayouts = <<>>
  /\ animTicks = {}
  /\ last = Call("init", NoHandle, FALSE, NoCalls)
  /\ steps = 0
  /\ HostIdle

NextStrip ==
  \/ \E sb \in StripScreens : last.op = "init" /\ LayoutStack(sb)
  \/ \E k \in 0 .. AnimSteps : AnimTick(k)

SpecStrip == InitStrip /\ [][NextStrip]_vars

\* ------------------------------------------- specification of the monitors

\* Arguments of updateManagedSet: nothing, one foreign window, a foreign
\* window together with the window of this process.
ManagedSets == {{}, {1}, {1, MaxHandle}}

\* The engine as its constructor leaves it.
EngineIdle ==
  /\ isWindow = [h \in Handles |-> TRUE]
  /\ isIconic = [h \in Handles |-> FALSE]
  /\ winRect = [h \in Handles |-> InitialRect(h)]
  /\ managedWindows = <<>>
  /\ activeHwnd = NoHandle
  /\ customWidth = Null
  /\ customHeight = Null
  /\ skipAnimation = FALSE
  /\ restoreTimers = {}
  /\ animTimer = FALSE
  /\ currentTargets = <<>>
  /\ animLayouts = <<>>
  /\ animTicks = {}
  /\ last = Call("init", NoHandle, FALSE, NoCalls)
  /\ steps = 0

\* The focus monitor under any sequence of start, updateManagedSet and stop
\* calls and timer ticks, while the OS changes the foreground window.
InitFocus ==
  /\ EngineIdle
  /\ HostIdle

NextFocus ==
  \/ \E h \in ForegroundValues : OsFocus(h)
  \/ FocusStart
  \/ FocusStop
  \/ \E hwnds \in ManagedSets : FocusUpdateManagedSet(hwnds)
  \/ \E i \in 1 .. MaxMonitorStarts : FocusPoll(i)

SpecFocus == InitFocus /\ [][NextFocus]_vars

\* The resize monitor, of either build (with or without
\* WINEVENT_SKIPOWNPROCESS), under any sequence of start, updateManagedSet
\* and stop calls, while the OS reports finished move/size gestures.
InitResize ==
  /\ EngineIdle
  /\ FocusIdle
  /\ ResizeIdle
  /\ RegistryIdle
  /\ RestIdle
  /\ rmSkipOwn \in BOOLEAN
  /\ monLast = MonCall("init", 0, 0)

NextResize ==
  \/ ResizeStart
  \/ ResizeStop
  \/ \E hwnds \in ManagedSets : ResizeUpdateManagedSet(hwnds)
  \/ \E h \in ForegroundValues, k \in ObjectKinds : OsMoveSizeEnd(h, k)

SpecResize == InitResize /\ [][NextResize]_vars

\* Several instances listing, adding and removing windows, their debounced
\* registry writes, and their starts and ends, in any order.
InitRegistry ==
  /\ EngineIdle
  /\ HostIdle

NextRegistry ==
  \/ \E i \in Instances : Launch(i)
  \/ \E i \in Instances : ListAvailable(i)
  \/ \E i \in Instances, h \in SharedWindows : AddWindowIpc(i, h)
  \/ \E i \in Instances, h \in SharedWindows : RemoveWindowIpc(i, h)
  \/ \E i \in Instances : FlushManagedHwnds(i)
  \/ ClockTick
  \/ \E i \in Instances : Unregister(i)
  \/ \E i \in Instances : Exit(i)
  \/ \E i \in Instances : Crash(i)

SpecRegistry == InitRegistry /\ [][NextRegistry]_vars

\* Persistence after init, under any save calls while its writes settle, each
\* write settling at some time.
InitPersist ==
  /\ EngineIdle
  /\ HostIdle

NextPersist ==
  \/ \E state \in SaveStates : Save(state)
  \/ \E k \in 1 .. MaxSaves : WriteDone(k)

SpecPersist ==
  InitPersist /\ [][NextPersist]_vars /\ WF_vars(\E k \in 1 .. MaxSaves : WriteDone(k))

\* An engine driven by its methods while windows are destroyed, until its
\* state is saved and loaded into a new engine.
NextRoundTrip ==
  \/ \E h \in Handles : ~rtLoaded.done /\ AddWindow(h)
  \/ \E h \in Handles : ~rtLoaded.done /\ PromoteToActive(h, FALSE)
  \/ \E h \in Handles, t \in Titles : ~rtLoaded.done /\ RenameWindow(h, t)
  \/ \E w \in CustomDims : ~rtLoaded.done /\ SetCustomDimensions(w, Null)
  \/ \E name \in StackNames : ~rtLoaded.done /\ SetStackName(name)
  \/ \E hide \in BOOLEAN : ~rtLoaded.done /\ SetHideAvailable(hide)
  \/ \E color \in ColorArgs : ~rtLoaded.done /\ SetBackgroundColor(color)
  \/ \E h \in Handles : ~rtLoaded.done /\ OsClose(h)
  \/ \E hidden \in SUBSET Handles : ~rtLoaded.done /\ LoadRoundTrip(hidden)

SpecRoundTrip == Init /\ [][NextRoundTrip]_vars

\* One main process from whenReady to its exit: windows are added, laid out
\* and removed, the timers of main.js, of the monitors, of the registry and
\* of the engine are armed and fire in any order, and performCleanup runs at
\* any moment.  No window is destroyed, and the registry debounce is armed
\* and cancelled but does not come due (SpecRegistry lets it fire).
NextShutdown ==
  \/ AppReady
  \/ \E h \in AppHandles : Running /\ AddWindow(h)
  \/ \E h \in AppHandles : Running /\ RemoveWindow(h)
  \/ Running /\ LayoutStack(PanelBounds)
  \/ \E t \in DebounceTimers : Debounce(t)
  \/ RegistryUpdate
  \/ LayoutDebounceFires
  \/ Len(persistSaved) < MaxAppSaves /\ SaveDebounceFires
  \/ FocusDebounceFires
  \/ SweepFires
  \/ Len(persistSaved) < MaxAppSaves /\ AutoSaveFires
  \/ \E i \in 1 .. MaxMonitorStarts : instLive[App] /\ FocusPoll(i)
  \/ \E k \in 0 .. AnimSteps : instLive[App] /\ AnimTick(k)
  \/ \E t \in restoreTimers, k \in 0 .. AnimSteps : instLive[App] /\ RestoreTick(t, k)
  \/ \E k \in 1 .. MaxSaves : instLive[App] /\ WriteDone(k)
  \/ \E e \in QuitEventKinds : PerformCleanup(e)
  \/ Exit(App)

SpecShutdown == Init /\ [][NextShutdown]_vars

\* The handle sets a debounced write is started with.
FlushArgs == {{}, {1}}

\* The registry operations of several instances, one file system call at a
\* time.
NextRegistryFile ==
  \/ \E i \in Instances : FileLaunch(i)
  \/ \E i \in Instances, hwnds \in FlushArgs : FileBeginFlush(i, hwnds)
  \/ \E i \in Instances : FileBeginGetOthers(i)
  \/ \E i \in Instances : FileBeginUnregister(i)
  \/ \E i \in Instances : FileRead(i)
  \/ \E i \in Instances : FileTruncate(i)
  \/ \E i \in Instances : FileFill(i)
  \/ \E i \in Instances : FileRename(i)
  \/ \E i \in Instances : FileUnlink(i)
  \/ \E i \in Instances : FileDie(i)

SpecRegistryFile == InitRegistry /\ [][NextRegistryFile]_vars

\* The registry operations of several instances on a file that is damaged,
\* write-protected or unreadable for a moment at any time.
NextRegistryIo ==
  \/ \E i \in Instances : IoInit(i)
  \/ \E i \in Instances, hwnds \in FlushArgs : IoFlush(i, hwnds)
  \/ \E i \in Instances : IoGetOthers(i)
  \/ \E i \in Instances : IoInitUnreadable(i)
  \/ \E i \in Instances : IoGetOthersUnreadable(i)
  \/ \E i \in Instances : IoUnregister(i)
  \/ \E state \in DamagedStates \cup {"absent"} : IoDamage(state)
  \/ IoProtect

SpecRegistryIo == InitRegistry /\ [][NextRegistryIo]_vars

\* ------------------------------------------------------------- properties

\* C1: whatever sequence of addWindow, removeWindow, promoteToActive,
\* removeDeadWindows and restoreAll is applied, with windows dying in
\* between, managedWindows never holds the same handle twice.
NoDuplicateHandles ==
  \A i, j \in 1 .. Len(managedWindows) :
    managedWindows[i].hwnd = managedWindows[j].hwnd => i = j

\* addWindow was called on a handle that is already in a stack of two or more.
ReAddOfManagedHandle ==
  /\ last.op = "addWindow"
  /\ last.fg = {}
  /\ last.hwnd \in ManagedHwnds(managedWindows)
  /\ Len(managedWindows) >= 2

\* C2: activeHwnd is 0 exactly when managedWindows is empty, and otherwise
\* is the handle of one of its entries.
ActiveIsNoneOrManaged ==
  /\ activeHwnd = NoHandle <=> managedWindows = <<>>
  /\ activeHwnd # NoHandle => \E i \in 1 .. Len(managedWindows) :
                                managedWindows[i].hwnd = activeHwnd

\* removeWindow took out the active window of a stack that had others: the
\* handle it was called on is gone and the front entry is active.
ActiveRemovedOthersRemain ==
  /\ last.op = "removeWindow"
  /\ last.ret
  /\ Len(managedWindows) >= 2
  /\ activeHwnd = managedWindows[1].hwnd
  /\ last.hwnd \notin ManagedHwnds(managedWindows)

\* C3: promoteToActive(h, force) leaves managedWindows as it is (members,
\* order, originalRects), and the custom dimensions and timers with it; only
\* activeHwnd may change.  When h is not managed it returns false and leaves
\* activeHwnd as it is.
PromoteChangesOnlyActive ==
  [][last'.op = "promoteToActive" =>
       /\ managedWindows' = managedWindows
       /\ UNCHANGED <<dimVars, skipAnimation, restoreTimers, animVars>>
       /\ last'.hwnd \notin {managedWindows[i].hwnd : i \in 1 .. Len(managedWindows)}
            => ~last'.ret /\ activeHwnd' = activeHwnd]_vars

\* promoteToActive made a window active that is not at the front.
PromotedBehindFront ==
  /\ last.op = "promoteToActive"
  /\ last.ret
  /\ activeHwnd = last.hwnd
  /\ Len(managedWindows) >= 2
  /\ managedWindows[1].hwnd # activeHwnd

\* C4: removeWindow(h) on a managed h removes exactly that entry and keeps
\* the others in order; when h was active the front of what remains becomes
\* active (none when nothing remains), otherwise activeHwnd is unchanged.  On
\* an unmanaged h nothing changes and no restore is started.
RemoveWindowRemovesExactly ==
  [][last'.op = "removeWindow" =>
       LET h == last'.hwnd IN
       IF \E i \in 1 .. Len(managedWindows) : managedWindows[i].hwnd = h
       THEN /\ managedWindows' = SelectSeq(managedWindows, LAMBDA w : w.hwnd # h)
            /\ activeHwnd' =
                 IF activeHwnd # h THEN activeHwnd
                 ELSE IF managedWindows' = <<>> THEN NoHandle
                 ELSE managedWindows'[1].hwnd
       ELSE /\ UNCHANGED <<modelVars, osVars, restoreTimers>>
            /\ last'.pos = {}]_vars

\* removeWindow took an inactive window out of the middle of a stack.
RemovedInactiveFromMiddle ==
  /\ last.op = "removeWindow"
  /\ last.ret
  /\ Len(managedWindows) = 2
  /\ last.hwnd \notin ManagedHwnds(managedWindows)
  /\ activeHwnd = managedWindows[2].hwnd
  /\ managedWindows[1].hwnd > last.hwnd
  /\ last.hwnd > managedWindows[2].hwnd

\* C5: addWindow(h) on a handle that is already managed or is not a window
\* changes neither managedWindows nor activeHwnd and calls neither
\* SetForegroundWindow nor ShowWindow.
AddWindowRejects ==
  [][/\ last'.op = "addWindow"
     /\ \/ \E i \in 1 .. Len(managedWindows) : managedWindows[i].hwnd = last'.hwnd
        \/ ~isWindow[last'.hwnd]
     => /\ UNCHANGED <<modelVars, osVars>>
        /\ last'.fg = {}
        /\ last'.show = {}]_vars

\* addWindow was called on an unmanaged handle whose window was destroyed,
\* while another window is managed.
AddOfDestroyedWindow ==
  /\ last.op = "addWindow"
  /\ ~isWindow[last.hwnd]
  /\ last.hwnd \notin ManagedHwnds(managedWindows)
  /\ managedWindows # <<>>

\* C6: addWindow(h) on a window that is not managed puts a new entry for h
\* at the front, keeps the previous entries in their order, makes h active
\* and stores the rectangle h has at the call as its originalRect; no later
\* step (layout, animation, promotion, rename) changes the originalRect of
\* an entry that stays managed.
AddWindowInsertsAtFront ==
  [][/\ /\ last'.op = "addWindow"
        /\ isWindow[last'.hwnd]
        /\ \A i \in 1 .. Len(managedWindows) : managedWindows[i].hwnd # last'.hwnd
        => /\ Len(managedWindows') = Len(managedWindows) + 1
           /\ managedWindows'[1].hwnd = last'.hwnd
           /\ managedWindows'[1].originalRect = winRect[last'.hwnd]
           /\ Tail(managedWindows') = managedWindows
           /\ activeHwnd' = last'.hwnd
     /\ \A i \in 1 .. Len(managedWindows), j \in 1 .. Len(managedWindows') :
          managedWindows[i].hwnd = managedWindows'[j].hwnd
            => managedWindows[i].originalRect = managedWindows'[j].originalRect]_vars

\* Two windows were added, a layout ran and its animation finished: both
\* windows are where the layout put them, and both entries still hold the
\* rectangle their window had when it was added.
LayoutKeptOriginalRects ==
  /\ last.op = "animTick"
  /\ last.ret
  /\ Len(managedWindows) >= 2
  /\ activeHwnd = managedWindows[1].hwnd
  /\ \A i \in 1 .. Len(managedWindows) :
       /\ managedWindows[i].originalRect = InitialRect(managedWindows[i].hwnd)
       /\ winRect[managedWindows[i].hwnd] # InitialRect(managedWindows[i].hwnd)

\* C7: removeDeadWindows removes exactly the entries whose handle is no
\* longer a window and keeps the survivors in order; activeHwnd is unchanged
\* when the active window survived and is the front survivor (none when
\* there is none) otherwise; it returns true exactly when it removed some.
SweepRemovesExactlyTheDead ==
  [][last'.op = "removeDeadWindows" =>
       /\ managedWindows' = SelectSeq(managedWindows, LAMBDA w : isWindow[w.hwnd])
       /\ activeHwnd' =
            IF \E j \in 1 .. Len(managedWindows') : managedWindows'[j].hwnd = activeHwnd
            THEN activeHwnd
            ELSE IF managedWindows' = <<>> THEN NoHandle
            ELSE managedWindows'[1].hwnd
       /\ last'.ret = (Len(managedWindows') < Len(managedWindows))]_vars

\* removeDeadWindows removed something and left a survivor.
SweepRemovedSomeKeptSome ==
  /\ last.op = "removeDeadWindows"
  /\ last.ret
  /\ managedWindows # <<>>
  /\ \E h \in Handles : ~isWindow[h]

\* C8: restoreAll positions every managed window that is still a window at
\* its originalRect by a SetWindowPos call of its own (no animation), then
\* leaves managedWindows empty, activeHwnd none and no restore-animation
\* timer pending.
RestoreAllIsImmediate ==
  [][last'.op = "restoreAll" =>
       /\ \A i \in 1 .. Len(managedWindows) :
            isWindow[managedWindows[i].hwnd] =>
              /\ winRect'[managedWindows[i].hwnd] = managedWindows[i].originalRect
              /\ [hwnd |-> managedWindows[i].hwnd,
                  rect |-> managedWindows[i].originalRect] \in last'.pos
       /\ managedWindows' = <<>>
       /\ activeHwnd' = NoHandle
       /\ restoreTimers' = {}]_vars

\* restoreAll put back two windows, one of them from where a layout left it.
RestoredTwoWindows ==
  /\ last.op = "restoreAll"
  /\ Cardinality(last.pos) >= 2
  /\ managedWindows = <<>>
  /\ \A q \in last.pos : winRect[q.hwnd] = q.rect

\* C9: for every stack, every active window and every custom width and
\* height, no target layoutStack computes has its bottom edge (y + cy) below
\* the bottom of the work area (y + height of the bounds it was given).
TargetsEndAboveWorkAreaBottom ==
  last.op = "layoutStack" =>
    \A i \in 1 .. Len(last.targets) :
      last.targets[i].y + last.targets[i].cy <= last.sb.y + last.sb.height

\* C10: no target layoutStack computes has its right edge (x + cx) beyond
\* displayRightEdge (startX + 1920 when none was given), and every target's
\* x is the right edge of the controller panel.
TargetsEndBeforeDisplayRightEdge ==
  last.op = "layoutStack" =>
    \A i \in 1 .. Len(last.targets) :
      /\ last.targets[i].x = last.sb.x + last.sb.width
      /\ last.targets[i].x + last.targets[i].cx <=
           IF last.sb.displayRightEdge # Null THEN last.sb.displayRightEdge
           ELSE last.sb.x + last.sb.width + FallbackDisplayWidth

\* layoutStack laid out three or more windows with a custom width larger
\* than the room right of the panel: the targets are as wide as that room.
CustomWidthClamped ==
  /\ last.op = "layoutStack"
  /\ Len(last.targets) >= 3
  /\ customWidth # Null
  /\ last.sb.displayRightEdge # Null
  /\ customWidth > last.sb.displayRightEdge - (last.sb.x + last.sb.width)
  /\ \A i \in 1 .. Len(last.targets) :
       last.targets[i].x + last.targets[i].cx = last.sb.displayRightEdge

\* What a layoutStack call shows of its strip computation: the number of
\* inactive windows, the height every inactive window is given
\* (effectiveHeight) and the distance from the top of the work area to the
\* active window (inactiveCount strips).
LaidOutInactiveCount == Len(last.targets) - 1

LaidOutEffectiveHeight == last.targets[1].cy

LaidOutStripSpace == last.targets[Len(last.targets)].y - last.sb.y

LaidOutWithStrips == last.op = "layoutStack" /\ Len(last.targets) >= 2

\* C11 (as stated): the space the strips take, inactiveCount * stripHeight,
\* does not exceed 60% of effectiveHeight.
StripsWithinSixtyPercent ==
  LaidOutWithStrips => 10 * LaidOutStripSpace <= 6 * LaidOutEffectiveHeight

\* C11 (amended): the space the strips take does not exceed 60% of
\* effectiveHeight unless the strips are at their floor of 10 pixels each, in
\* which case it is 10 * inactiveCount.
StripsWithinSixtyPercentOrAtFloor ==
  LaidOutWithStrips =>
    \/ 10 * LaidOutStripSpace <= 6 * LaidOutEffectiveHeight
    \/ LaidOutStripSpace = MinStripHeight * LaidOutInactiveCount

\* The strips were shrunk below 40 to fit into 60% and are above the floor.
StripsShrunkToFit ==
  /\ LaidOutWithStrips
  /\ LaidOutStripSpace < HEADER_HEIGHT * LaidOutInactiveCount
  /\ LaidOutStripSpace > MinStripHeight * LaidOutInactiveCount
  /\ 10 * LaidOutStripSpace <= 6 * LaidOutEffectiveHeight

\* C12: the strip height is 40 when inactiveCount * 40 <= 0.6 *
\* effectiveHeight and max(floor(floor(0.6 * effectiveHeight) / inactiveCount),
\* 10) otherwise; it is never below 10 and never above 40.
StripHeightFormula ==
  LaidOutWithStrips =>
    LET n == LaidOutInactiveCount
        sixty == (6 * LaidOutEffectiveHeight) \div 10
        shrunk == sixty \div n
        strip == IF 10 * n * 40 <= 6 * LaidOutEffectiveHeight THEN 40
                 ELSE IF shrunk >= 10 THEN shrunk ELSE 10
    IN /\ LaidOutStripSpace = n * strip
       /\ LaidOutStripSpace >= n * 10
       /\ LaidOutStripSpace <= n * 40
       /\ \A i \in 1 .. n : last.targets[i].y = last.sb.y + (i - 1) * strip

\* effectiveHeight = 600 and ten inactive windows: the strip height is 36.
StripHeightThirtySix ==
  /\ LaidOutWithStrips
  /\ LaidOutInactiveCount = 10
  /\ LaidOutEffectiveHeight = 600
  /\ LaidOutStripSpace = 360
  /\ last.targets[2].y - last.targets[1].y = 36

PromoteReassertsForeground ==
  [][/\ last'.op = "promoteToActive"
     /\ last'.hwnd = activeHwnd
     /\ \E i \in 1 .. Len(managedWindows) : managedWindows[i].hwnd = activeHwnd
     => /\ UNCHANGED modelVars
        /\ last'.fg = IF last'.force THEN {last'.hwnd} ELSE {}]_vars

FocusCallbackOnlyWhenDue ==
  [][/\ monLast'.op \in {"osFocus", "focusStart", "focusStop", "focusUpdate"}
          => monLast'.calls = 0
     /\ monLast'.op = "poll" /\ monLast'.calls # 0
          => /\ monLast'.calls = 1
             /\ monLast'.hwnd = fgWindow
             /\ monLast'.hwnd # 0
             /\ monLast'.hwnd \in fmManaged
             /\ monLast'.hwnd \notin OwnWindows
             /\ monLast'.hwnd # fmLastForeground]_vars

\* A poll reported window 1 while the managed set also holds this process's
\* window.
FocusReported ==
  /\ monLast.op = "poll"
  /\ monLast.calls = 1
  /\ monLast.hwnd = 1
  /\ fmLastForeground = 1
  /\ fmManaged = {1, MaxHandle}

\* C17: every foreground change onto a managed window of another process is
\* reported by an onFocusChange call: whenever a poll of the one running
\* timer has completed, at least as many calls were made as there were such
\* changes (both counted since the monitor was last started or given a
\* managed set; a poll makes at most one call, for the current foreground).
EveryFocusArrivalReported ==
  monLast.op = "poll" /\ fmIntervals = {fmTimer} => fmReports >= fmArrivals

\* C18: after stop() no polling timer of the focus monitor and no hook or
\* registered callback of the resize monitor remains, the user callback is
\* not invoked again, and a further stop() changes nothing.
StopLeavesNothingBehind ==
  [][/\ monLast'.op = "focusStop" => fmTimer' = 0 /\ fmIntervals' = {}
     /\ monLast'.op = "resizeStop" =>
          rmHook' = 0 /\ rmCallback' = 0 /\ rmHooks' = {} /\ rmCallbacks' = {}
     /\ fmTimer = 0 /\ monLast'.op = "poll" => monLast'.calls = 0
     /\ rmHook = 0 /\ monLast'.op \in {"moveSizeEnd", "moveSizeEndOther"}
          => monLast'.calls = 0
     /\ fmTimer = 0 /\ monLast'.op = "focusStop" =>
          UNCHANGED <<fmTimer, fmIntervals, fmLastForeground, fmManaged,
                      fmOnFocusChange>>
     /\ rmHook = 0 /\ rmCallback = 0 /\ monLast'.op = "resizeStop" =>
          UNCHANGED resizeVars]_vars

\* C19: while the resize monitor is started, a move/size-ended event makes
\* it call onGeometryChangeEnd(h) exactly once when the event is for the
\* window object of a non-zero managed handle h of another process, and not
\* at all otherwise.
GeometryCallbackOncePerManagedEvent ==
  monLast.op \in {"moveSizeEnd", "moveSizeEndOther"} /\ rmHook # 0 =>
    monLast.calls =
      IF /\ monLast.op = "moveSizeEnd"
         /\ monLast.hwnd # 0
         /\ monLast.hwnd \in rmManaged
         /\ monLast.hwnd \notin OwnWindows
      THEN 1 ELSE 0

\* C20: no window handle is in the stacks of two running instances at the
\* same time.
NoHandleInTwoStacks ==
  \A i, j \in Instances :
    i # j /\ instLive[i] /\ instLive[j] => instManaged[i] \cap instManaged[j] = {}

\* C22: getOtherInstancesHwnds returns exactly the union of the managedHwnds
\* of the entries of running instances other than the caller, and leaves on
\* disk exactly the entries of running instances, each unchanged.
OthersAreLiveSiblings ==
  [][regLast'.op = "getOthers" =>
       \E before \in {ReadRegistry(registryState, registryFile)} :
         /\ regLast'.result =
              UNION {before[k] : k \in {j \in DOMAIN before :
                                          instLive[j] /\ j # regLast'.inst}}
         /\ registryState' = "complete"
         /\ DOMAIN registryFile' = {j \in DOMAIN before : instLive[j]}
         /\ \A j \in DOMAIN registryFile' : registryFile'[j] = before[j]]_vars

\* The caller's own entry holds a handle that the returned set, which is not
\* empty, does not hold.
OwnHandlesLeftOut ==
  /\ regLast.op = "getOthers"
  /\ regLast.result # {}
  /\ regLast.inst \in DOMAIN registryFile
  /\ registryFile[regLast.inst] \ regLast.result # {}

\* C23 as stated: every burst of updateManagedHwnds calls ends in exactly one
\* registry write: once no timer of a running instance is pending, one write
\* has been made for its last burst.
EveryBurstWritesOnce ==
  \A i \in Instances :
    instLive[i] /\ instBurst[i].calls > 0 /\ instPending[i] = {}
      => instBurst[i].writes = 1

\* C23, amended: a burst ends in at most one write; it is made one debounce
\* interval after the last call, carries that call's argument and replaces
\* only this instance's managedHwnds, and it is made exactly when the
\* instance's entry is in the registry at that moment.
BurstWritesAtMostOnce ==
  [][/\ \A i \in Instances : instBurst'[i].writes <= 1
     /\ regLast'.op = "flush" =>
          \E i \in {regLast'.inst} :
            \E before \in {ReadRegistry(registryState, registryFile)} :
              /\ instBurst[i].since = DebounceTicks
              /\ regLast'.result = instBurst[i].lastArg
              /\ instPending'[i] = {}
              /\ regLast'.wrote = (i \in DOMAIN before)
              /\ regLast'.wrote =>
                   /\ instBurst'[i].writes = 1
                   /\ registryState' = "complete"
                   /\ registryFile' = [before EXCEPT ![i] = instBurst[i].lastArg]
              /\ ~regLast'.wrote =>
                   UNCHANGED <<registryState, registryFile>>]_vars

\* A burst of two calls has been written, with the handles of the second call.
BurstOfTwoWritten ==
  /\ regLast.op = "flush"
  /\ regLast.wrote
  /\ instBurst[regLast.inst].calls = 2
  /\ instBurst[regLast.inst].writes = 1
  /\ registryFile[regLast.inst] = instManaged[regLast.inst]
  /\ instManaged[regLast.inst] # {}

\* C24: unregister removes the instance's entry and leaves the other entries
\* as they were, or deletes the file when no entry remains; it cancels the
\* pending debounced write; and as long as the process runs on, nothing it
\* does brings its entry back.
UnregisterRemovesOwnEntryForGood ==
  [][/\ regLast'.op = "unregister" =>
          \E i \in {regLast'.inst} :
            \E before \in {ReadRegistry(registryState, registryFile)} :
              /\ IF DOMAIN before \ {i} = {}
                 THEN registryState' = "absent"
                 ELSE /\ registryState' = "complete"
                      /\ DOMAIN registryFile' = DOMAIN before \ {i}
                      /\ \A j \in DOMAIN registryFile' :
                           registryFile'[j] = before[j]
              /\ instPending'[i] = {}
              /\ instDebounceTimer'[i] = {}
     /\ \A i \in Instances :
          instLive[i] /\ instCleanedUp[i] /\ instLive'[i] =>
            i \notin DOMAIN ReadRegistry(registryState', registryFile')]_vars

\* An instance with a write pending has unregistered while its sibling's
\* entry, holding a handle, stayed in the file.
UnregisteredBesideSibling ==
  /\ regLast.op = "unregister"
  /\ instBurst[regLast.inst].calls > 0
  /\ instBurst[regLast.inst].writes = 0
  /\ registryState = "complete"
  /\ \E j \in DOMAIN registryFile : registryFile[j] # {}

\* C21: a write by one instance never removes the entry of another running
\* instance from the registry file, nor changes its managedHwnds.
WritesKeepSiblingEntries ==
  [][regLast'.op \in {"fileFill", "fileRename", "fileUnlink"} =>
       \E before \in {ReadRegistry(registryState, registryFile)} :
         \E after \in {ReadRegistry(registryState', registryFile')} :
           \A b \in DOMAIN before \ {regLast'.inst} :
             instLive[b] => b \in DOMAIN after /\ after[b] = before[b]]_vars

\* C25: the registry file is absent or holds one complete registry value.
RegistryFileNeverPartial ==
  registryState \in {"absent", "complete"}

\* C26: with the registry file missing, unparsable, malformed or unwritable,
\* init, the debounced write, getOtherInstancesHwnds and unregister all
\* return normally.
RegistryFailureNeverPropagates ==
  ~regLast.threw

\* C27: once no animation timer is pending, every window that was removed and
\* not added again stands at its originalRect, which is the rectangle it had
\* before it was added.
RemovedWindowRestsAtOriginalRect ==
  ~animTimer /\ restoreTimers = {} =>
    \A h \in Handles :
      h \notin ManagedHwnds(managedWindows) => winRect[h] = InitialRect(h)

RoundTripReproducesEngine ==
  rtLoaded.done /\ rtLoaded.present =>
    /\ rtLoaded.engine.windows = rtSource.windows
    /\ rtLoaded.engine.activeHwnd = FrontOrNone(rtLoaded.engine.windows)
    /\ rtLoaded.engine.stackName = rtSource.stackName
    /\ rtLoaded.engine.hideAvailable = rtSource.hideAvailable
    /\ rtLoaded.engine.backgroundColor = rtSource.backgroundColor
    /\ rtLoaded.engine.customWidth = rtSource.customWidth
    /\ rtLoaded.engine.customHeight = rtSource.customHeight

\* Two windows, one of them renamed and the one behind the front active,
\* with a name, a colour and a custom width set, were saved and loaded.
RoundTripOfChangedEngine ==
  /\ rtLoaded.done
  /\ rtLoaded.present
  /\ Len(rtSource.windows) = 2
  /\ rtSource.activeHwnd = rtSource.windows[2].hwnd
  /\ rtSource.windows[1].customTitle # ""
  /\ rtSource.stackName # DefaultStackName
  /\ rtSource.customWidth # Null

\* C28: once performCleanup has run, no timer of the process is pending (the
\* focus poll, the sweep and auto-save intervals, the three debounce timers
\* of main.js, the registry debounce, the layout animation tick, the restore
\* animation ticks), and no window is moved any more.
ShutdownCancelsEveryTimer ==
  /\ [](instCleanedUp[App] =>
          /\ fmIntervals = {}
          /\ appTimers = {}
          /\ instPending[App] = {}
          /\ ~animTimer
          /\ restoreTimers = {})
  /\ [][instCleanedUp[App] => winRect' = winRect]_vars

\* C31: at most one layout tick is pending and it is the one
\* this._animationTimer refers to (no tick of a superseded animation is left);
\* a layoutStack whose target key equals that of the animation in flight
\* leaves the animation as it is.
OneLayoutAnimationPending ==
  /\ [](Cardinality(animTicks) <= 1 /\ animTicks = ReferencedTick)
  /\ [][(/\ last'.op = "layoutStack"
         /\ last' # last
         /\ last'.targets # <<>>
         /\ ~skipAnimation
         /\ animTimer
         /\ TargetsKey(last'.targets) = currentTargets)
        => UNCHANGED animVars]_vars

\* A layout request for other targets has cancelled the tick of the
\* animation in flight and started its own.
LayoutAnimationSuperseded ==
  /\ last.op = "layoutStack"
  /\ last.cleared
  /\ animTimer
  /\ Len(animLayouts) = 2

\* C32: the layout animation and the restore animations are cancelled
\* independently.  A layoutStack call (starting or superseding a layout
\* animation) and a layout tick (intermediate or final) leave every pending
\* restore timer as it is; a removeWindow(A) that starts the restore of A
\* leaves the layout animation as it is, keeps the restore timer of every
\* other window and leaves A with exactly one restore timer, the new one.
AnimationsCancelIndependently ==
  /\ [][last'.op \in {"layoutStack", "animTick"} => restoreTimers' = restoreTimers]_vars
  /\ [][(last'.op = "removeWindow" /\ last'.ret)
        => /\ UNCHANGED animVars
           /\ {t \in restoreTimers' : t.hwnd # last'.hwnd}
                = {t \in restoreTimers : t.hwnd # last'.hwnd}
           /\ Cardinality({t \in restoreTimers' : t.hwnd = last'.hwnd}) = 1]_vars

\* C32 (witness): a restore starts while a layout animation and the restore
\* of another window are pending, and all three timers are pending after it.
RestoreStartedBesideOthers ==
  /\ last.op = "removeWindow" /\ last.ret
  /\ animTimer /\ animTicks # {}
  /\ \E t \in restoreTimers : t.hwnd = last.hwnd
  /\ \E t \in restoreTimers : t.hwnd # last.hwnd

\* ------------------------------- specification of the layout animation's end

\* A call or an early tick is made only while a step is left for the tick
\* that ends the animation, so that the bound on the length of a run never
\* cuts an animation short.
StepLeftForFinalTick == steps < MaxSteps - 1

\* Windows are added, removed, promoted, laid out and destroyed while the
\* layout animation ticks; the timer fires until the duration has elapsed.
NextAnimation ==
  \/ StepLeftForFinalTick /\ \E h \in HandleArgs : AddWindow(h)
  \/ StepLeftForFinalTick /\ \E h \in HandleArgs : RemoveWindow(h)
  \/ StepLeftForFinalTick /\ \E h \in HandleArgs : PromoteToActive(h, FALSE)
  \/ StepLeftForFinalTick /\ LayoutStack(PanelBounds)
  \/ StepLeftForFinalTick /\ \E h \in Handles : OsClose(h)
  \/ StepLeftForFinalTick /\ \E k \in 0 .. (AnimSteps - 1) : AnimTick(k)
  \/ AnimTick(AnimSteps)

\* setTimeout fires every pending timer, and Date.now() - startTime reaches
\* the duration: the tick at progress 1 is taken once it stays possible.
SpecAnimation ==
  Init /\ [][NextAnimation]_vars /\ WF_vars(AnimTick(AnimSteps))

\* Every layout animation ends: a pending layout timer leads to a state with
\* no layout timer, and the tick at progress 1 leaves no timer pending and
\* the key cleared.
LayoutAnimationTerminates ==
  /\ animTimer ~> (~animTimer /\ animTicks = {} /\ currentTargets = <<>>)
  /\ [][(last'.op = "animTick" /\ last'.ret)
        => (~animTimer' /\ animTicks' = {} /\ currentTargets' = <<>>)]_vars

\* The tick at progress 1 leaves every window of its batch on its target.
FinalTickPlacesEveryWindow ==
  [][(last'.op = "animTick" /\ last'.ret)
     => \A i \in 1 .. Len(animLayouts) :
          winRect'[animLayouts[i].hwnd] = ReqRect(TargetReq(animLayouts[i]))]_vars

\* C33: every layout animation that was started terminates: the tick at
\* progress 1 places every window of the batch at its exact target, and
\* after it no layout timer is pending and the key is cleared.
LayoutAnimationEndsAtTargets ==
  LayoutAnimationTerminates /\ FinalTickPlacesEveryWindow

\* ------------------------------------ specification of failing native calls

\* Windows are added, laid out, removed and destroyed while the two
\* animations tick and any native call of a tick may fail.
NextFault ==
  \/ \E h \in HandleArgs : AddWindow(h)
  \/ \E h \in HandleArgs : RemoveWindow(h)
  \/ LayoutStack(PanelBounds)
  \/ \E k \in 0 .. AnimSteps : AnimTick(k)
  \/ \E t \in restoreTimers, k \in 0 .. AnimSteps : RestoreTick(t, k)
  \/ \E site \in LayoutTickSites \cup {"none"} : AnimTickFails(site)
  \/ \E t \in restoreTimers, site \in RestoreTickSites : RestoreTickFails(t, site)
  \/ \E h \in Handles : OsClose(h)

SpecFault == Init /\ [][NextFault]_vars

\* A layout tick in which a native call threw or BeginDeferWindowPos returned
\* 0: nothing leaves the callback, no layout timer is pending after it, a
\* SetWindowPos with the exact target was issued for every window of the
\* animation, and every such window that is still a window is on its target.
ThrowInLayoutTickStopsAndSnaps ==
  [][last'.op = "animTickFailed"
     => /\ ~last'.ret
        /\ ~animTimer' /\ animTicks' = {}
        /\ \A i \in 1 .. Len(animLayouts) :
             /\ PosCall(TargetReq(animLayouts[i])) \in last'.pos
             /\ IsWindow(animLayouts[i].hwnd)
                  => winRect'[animLayouts[i].hwnd] = ReqRect(TargetReq(animLayouts[i]))]_vars

\* The same for a restore tick whose SetWindowPos threw.
ThrowInRestoreTickStopsAndSnaps ==
  [][last'.op = "restoreTickFailed"
     => /\ ~last'.ret
        /\ \E t \in restoreTimers :
             /\ t.hwnd = last'.hwnd
             /\ restoreTimers' = restoreTimers \ {t}
             /\ \A u \in restoreTimers' : u.hwnd # t.hwnd
             /\ last'.pos = {PosCall(TargetReq(t))}
             /\ IsWindow(t.hwnd) => winRect'[t.hwnd] = ReqRect(TargetReq(t))]_vars

PositioningOnlyOnValidWindows ==
  \A c \in last.pos : IsWindow(c.hwnd)

\* The part of it that restoreAll keeps: it tests IsWindow before each
\* SetWindowPos.
RestoreAllPositionsOnlyValidWindows ==
  last.op = "restoreAll" => \A c \in last.pos : IsWindow(c.hwnd)

\* ------------------------------------------ specification of the dead sweep

\* One running main process: windows are added through 'add-window',
\* promoted by the focus monitor's callback and destroyed by their owners
\* while the sweep interval and the layout debounce fire.
NextSweep ==
  \/ AppReady
  \/ \E h \in Handles : AddWindowHandler(h)
  \/ \E h \in Handles : Running /\ PromoteToActive(h, FALSE)
  \/ \E h \in Handles : OsClose(h)
  \/ SweepFires
  \/ LayoutDebounceFires

SpecSweep == Init /\ [][NextSweep]_vars

\* C36: the stale managed set corrects itself.  After every run of the
\* dead-window sweep no handle that is not a window is left in
\* managedWindows or in the managed set of either monitor, and activeHwnd is
\* 0 or managed; a sweep that removed a window has armed the layout debounce,
\* passed the new state to persistence.save and the new handle set to
\* updateManagedHwnds.
SweepCorrectsStaleSet ==
  /\ [][last'.op = "removeDeadWindows"
        => /\ \A h \in Handles :
                ~IsWindow(h) => /\ h \notin ManagedHwnds(managedWindows')
                                /\ h \notin fmManaged'
                                /\ h \notin rmManaged'
           /\ activeHwnd' = NoHandle \/ activeHwnd' \in ManagedHwnds(managedWindows')]_vars
  /\ [][(/\ last'.op = "removeDeadWindows"
         /\ \E h \in ManagedHwnds(managedWindows) : ~IsWindow(h))
        => /\ "_layoutDebounceTimer" \in appTimers'
           /\ Len(persistSaved') = Len(persistSaved) + 1
           /\ persistSaved'[Len(persistSaved')].windows
                = [i \in 1 .. Len(managedWindows') |->
                     [hwnd |-> managedWindows'[i].hwnd,
                      customTitle |-> managedWindows'[i].customTitle,
                      originalRect |-> managedWindows'[i].originalRect]]
           /\ \E t \in instDebounceTimer'[App] :
                t.hwnds = ManagedHwnds(managedWindows')
           /\ instDebounceTimer'[App] \subseteq instPending'[App]]_vars

\* C36 (witness): a sweep has just removed the destroyed active window of a
\* stack of two; the other window is active and is the monitors' managed set.
SweepRemovedDeadActive ==
  /\ last.op = "removeDeadWindows" /\ last.ret
  /\ Len(managedWindows) = 1
  /\ activeHwnd = managedWindows[1].hwnd
  /\ fmManaged = {activeHwnd} /\ rmManaged = {activeHwnd}
  /\ \E h \in Handles : ~IsWindow(h)
  /\ "_layoutDebounceTimer" \in appTimers

\* C37: shutdown cleanup runs at most once.  However many window-all-closed
\* and before-quit events arrive and in whatever order, saveSync, restoreAll,
\* cleanupFile and unregister have each run exactly once as soon as one event
\* has arrived, and an event after the first changes nothing.
CleanupRunsExactlyOnce ==
  /\ [](/\ cleanupRuns.events = 0
          => /\ cleanupRuns.saveSync = 0 /\ cleanupRuns.restoreAll = 0
             /\ cleanupRuns.cleanupFile = 0 /\ cleanupRuns.unregister = 0
        /\ cleanupRuns.events > 0
          => /\ cleanupRuns.saveSync = 1 /\ cleanupRuns.restoreAll = 1
             /\ cleanupRuns.cleanupFile = 1 /\ cleanupRuns.unregister = 1)
  /\ [][(cleanupRuns.events > 0 /\ cleanupRuns'.events > cleanupRuns.events)
        => UNCHANGED <<engineVars, focusVars, resizeVars, registryVars, monLast,
                       appTimers, persistVars>>]_vars

\* C37 (witness): three quit events have arrived, the last a before-quit
\* that found the cleanup done, and each step of the cleanup has run once.
ThreeQuitEventsOneCleanup ==
  /\ cleanupRuns.events = MaxQuitEvents
  /\ cleanupRuns.event = "before-quit"
  /\ instCleanedUp[App]
  /\ cleanupRuns.unregister = 1

\* C38: no window that is currently managed has a pending restore
\* animation: the handles of the restore timers and the handles of
\* managedWindows are disjoint, also when a window is removed and added
\* again before its restore has finished.
NoRestorePendingOnManagedWindow ==
  \A t \in restoreTimers : t.hwnd \notin ManagedHwnds(managedWindows)

\* ------------------------- specification of the registry's convergence

\* A handler of main.js changes the stack of instance i (here: a window is
\* added) and calls updateManagedHwnds(getManagedHwnds()).  A process runs
\* its handlers one at a time, so none starts inside a registry operation of
\* the same process.
ManagedSetGrows(i, h) ==
  /\ instLive[i] /\ ~instCleanedUp[i]
  /\ instOp[i].pc = "idle"
  /\ h \notin instManaged[i]
  /\ instManaged' = [instManaged EXCEPT ![i] = @ \cup {h}]
  /\ UpdateManagedHwnds(i, instManaged[i] \cup {h})
  /\ regLast' = RegCall("update", i, instManaged[i] \cup {h}, FALSE)
  /\ UNCHANGED <<instLive, instCleanedUp, instListed, instOp, registryState,
                 registryFile, tmpState, tmpFile>>
  /\ UNCHANGED <<focusVars, resizeVars, monLast, engineVars, restVars>>

\* The debounce timer of instance i fires, after a delay that is left open:
\* _debounceTimer = null, and _flushManagedHwnds starts with the handles of
\* the call that armed it.
FlushTimerFires(i) ==
  /\ instLive[i]
  /\ instOp[i].pc = "idle"
  /\ \E t \in instPending[i] :
       /\ instPending' = [instPending EXCEPT ![i] = @ \ {t}]
       /\ instDebounceTimer' = [instDebounceTimer EXCEPT ![i] = {}]
       /\ instOp' = [instOp EXCEPT ![i] =
            [kind |-> "flush", pc |-> "read", arg |-> t.hwnds,
             local |-> EmptyRegistry]]
       /\ regLast' = RegCall("fileBegin", i, t.hwnds, FALSE)
  /\ UNCHANGED <<instLive, instCleanedUp, instManaged, instListed, instBurst,
                 registryState, registryFile, tmpState, tmpFile>>
  /\ UNCHANGED <<focusVars, resizeVars, monLast, engineVars, restVars>>

\* performCleanup of instance i: restoreAll empties the stack, unregister
\* cancels the debounce timer and starts removing the entry.
CleanupBeginsUnregister(i) ==
  /\ instLive[i] /\ ~instCleanedUp[i]
  /\ instOp[i].pc = "idle"
  /\ instCleanedUp' = [instCleanedUp EXCEPT ![i] = TRUE]
  /\ instManaged' = [instManaged EXCEPT ![i] = {}]
  /\ instPending' = [instPending EXCEPT ![i] = @ \ instDebounceTimer[i]]
  /\ instDebounceTimer' = [instDebounceTimer EXCEPT ![i] = {}]
  /\ instOp' = [instOp EXCEPT ![i] =
       [kind |-> "unregister", pc |-> "read", arg |-> {}, local |-> EmptyRegistry]]
  /\ regLast' = RegCall("fileBegin", i, {}, FALSE)
  /\ UNCHANGED <<instLive, instListed, instBurst, registryState, registryFile,
                 tmpState, tmpFile>>
  /\ UNCHANGED <<focusVars, resizeVars, monLast, engineVars, restVars>>

\* An operation of instance i that has begun makes its next file system call.
FileStep(i) ==
  \/ FileRead(i)
  \/ FileTruncate(i)
  \/ FileFill(i)
  \/ FileRename(i)
  \/ FileUnlink(i)

\* Instances start, change their stacks, list the available windows and
\* shut down; their debounce timers fire; the file system calls of
\* their registry operations interleave.
NextRegistryLive ==
  \/ \E i \in Instances : FileLaunch(i)
  \/ \E i \in Instances, h \in SharedWindows : ManagedSetGrows(i, h)
  \/ \E i \in Instances : FlushTimerFires(i)
  \/ \E i \in Instances : FileBeginGetOthers(i)
  \/ \E i \in Instances : CleanupBeginsUnregister(i)
  \/ \E i \in Instances : FileStep(i)

\* A pending timer fires, and a synchronous operation that has begun runs to
\* its end.
SpecRegistryLive ==
  /\ InitRegistry
  /\ [][NextRegistryLive]_vars
  /\ \A i \in Instances : WF_vars(FlushTimerFires(i)) /\ WF_vars(FileStep(i))

\* The registry file holds an entry for instance i with exactly hwnds.
OnDisk(i, hwnds) ==
  /\ registryState = "complete"
  /\ i \in DOMAIN registryFile
  /\ registryFile[i] = hwnds

\* C39: registry eventual consistency.  From the moment on which a running
\* instance's managed set no longer changes, the registry file eventually
\* holds an entry for the instance whose handles are that set, whatever the
\* other instances read, prune, write and unregister meanwhile.
RegistryEventuallyConsistent ==
  \A i \in Instances, hwnds \in SUBSET SharedWindows :
    []<>(~(instLive[i] /\ ~instCleanedUp[i] /\ instManaged[i] = hwnds)
         \/ OnDisk(i, hwnds))

\* C40: a failed or unparsable registry read never destroys the data of live
\* instances: when init or getOtherInstancesHwnds cannot read the file, the
\* write that follows leaves the entry of every other live instance in the
\* file as it was.
FailedReadKeepsLiveEntries ==
  [][regLast'.op \in {"registerUnread", "getOthersUnread"}
     => \A j \in Instances \ {regLast'.inst} :
          (instLive[j] /\ registryState = "complete" /\ j \in DOMAIN registryFile)
            => /\ registryState' = "complete"
               /\ j \in DOMAIN registryFile'
               /\ registryFile'[j] = registryFile[j]]_vars

====
